---- MODULE Spec2Model ----
(***************************************************************************)
(* routine-cli: the session timer (start / pause / resume / stop), its     *)
(* time accounting (buildSession) and the routine directory, as a state    *)
(* machine over the four tables of the SQLite store.                       *)
(*                                                                         *)
(* A timestamp is the text the caller passed with --ts.  The store keeps   *)
(* that text; SQL orders it as TEXT (byte-wise), JavaScript turns it into  *)
(* an instant with new Date(text).getTime().  Both readings are modelled:  *)
(* a timestamp is [wall, frac, zone] where wall is the local wall-clock    *)
(* second written in the fixed-width part "YYYY-MM-DDTHH:MM:SS", frac the  *)
(* optional fraction text and zone the offset text.                        *)
(*                                                                         *)
(* Left out of the rows: id strings (a row is named by its position, ids   *)
(* are fresh ULIDs), created_at / updated_at (written, never read by a     *)
(* command) and deleted_at (no command sets it).                          *)
(*                                                                         *)
(* The step runner (`run <file>`: loadRoutine, runRoutine) is a second     *)
(* program of the repository; its process is the variable runner.          *)
(***************************************************************************)
EXTENDS Integers, Sequences, FiniteSets, TLC

\* ------------------------------------------------------------------ bounds
MaxWall == 1
MaxSessions == 1
MaxEvents == 3
MaxRoutines == 1

\* The routine directory on its own (SpecDir)
DirRoutines == 3
DirSessions == 1

\* Several sessions side by side (SpecMulti)
MultiRoutines == 2
MultiSessions == 2
MultiEvents == 2

\* Two processes on one database file (SpecRace)
RaceEvents == 2

\* The step runner (SpecRunner): steps of a routine file
MaxSteps == 3

\* The list of open sessions (SpecActive)
ActiveSessions == 2
ActiveEvents == 1

\* Instants with sub-second parts (SpecFrac)
FracEvents == 2

\* Notes and tags given to start and to stop (SpecTags)
TagEvents == 1

\* The callbacks of exec steps (SpecExec): exec steps spawned in one run
MaxExecs == 2

\* The day summary (SpecToday)
TodaySessions == 2
TodayEvents == 2

\* Routines named like identifiers (SpecPrefix)
PrefixRoutines == 3
PrefixSessions == 1

\* An optional value (null / undefined in the code) is <<>> or <<v>>.
None == <<>>
Some(v) == <<v>>
IsSome(o) == o # <<>>
Val(o) == o[1]

\* ------------------------------------------------------------- time (text)
\* Character codes of the zone and fraction texts.
ZoneText(z) ==
  CASE z = "Z" -> <<90>>
    [] z = "+00:01" -> <<43, 48, 48, 58, 48, 49>>
    [] z = "-00:01" -> <<45, 48, 48, 58, 48, 49>>
    [] OTHER -> <<>>

FracText(f) ==
  CASE f = ".5" -> <<46, 53>>
    [] f = ".000" -> <<46, 48, 48, 48>>
    [] OTHER -> <<>>

IsDigit(c) == c >= 48 /\ c <= 57

\* The tail of RFC3339_REGEX: (?:\.\d+)?(?:Z|[+-]\d{2}:\d{2})$
RFC3339_REGEX(ts) ==
  LET f == FracText(ts.frac)
      z == ZoneText(ts.zone)
  IN  /\ f = <<>> \/ (Len(f) >= 2 /\ f[1] = 46 /\ \A i \in 2..Len(f) : IsDigit(f[i]))
      /\ \/ z = <<90>>
         \/ /\ Len(z) = 6
            /\ z[1] \in {43, 45}
            /\ IsDigit(z[2]) /\ IsDigit(z[3])
            /\ z[4] = 58
            /\ IsDigit(z[5]) /\ IsDigit(z[6])

\* parseRFC3339(ts).valid, for an optional argument
parseRFC3339(arg) == IsSome(arg) /\ RFC3339_REGEX(Val(arg))

\* Minutes east of UTC written in the zone text.
OffsetMinutes(z) ==
  LET t == ZoneText(z)
  IN  IF Len(t) # 6 THEN 0
      ELSE LET m == ((t[2] - 48) * 10 + (t[3] - 48)) * 60 + (t[5] - 48) * 10 + (t[6] - 48)
           IN  IF t[1] = 45 THEN 0 - m ELSE m

FracMillis(f) ==
  LET t == FracText(f)
      d(i) == IF Len(t) >= i THEN t[i] - 48 ELSE 0
  IN  d(2) * 100 + d(3) * 10 + d(4)

\* new Date(ts).getTime(), in milliseconds
getTime(ts) == ts.wall * 1000 + FracMillis(ts.frac) - OffsetMinutes(ts.zone) * 60000

\* Math.floor((end - start) / 1000); \div rounds toward minus infinity
secondsBetween(start, end) == (getTime(end) - getTime(start)) \div 1000

isBefore(ts1, ts2) == getTime(ts1) < getTime(ts2)

isAfter(ts1, ts2) == getTime(ts1) > getTime(ts2)

\* Byte-wise comparison of two code sequences (SQLite BINARY collation).
RECURSIVE LexLess(_, _)
LexLess(s, t) ==
  IF s = <<>> THEN t # <<>>
  ELSE IF t = <<>> THEN FALSE
  ELSE IF Head(s) # Head(t) THEN Head(s) < Head(t)
  ELSE LexLess(Tail(s), Tail(t))

\* The text after the seconds field.
Suffix(ts) == FracText(ts.frac) \o ZoneText(ts.zone)

\* a < b as TEXT: the fixed-width wall part first, then the suffix bytes.
TextLess(a, b) ==
  \/ a.wall < b.wall
  \/ a.wall = b.wall /\ LexLess(Suffix(a), Suffix(b))

\* ------------------------------------------------------------------ inputs
ZoneSet == {"Z", "+00:01"}

\* Well-formed --ts / --as-of values
TsSet == {[wall |-> w, frac |-> "", zone |-> z] : w \in 0..MaxWall, z \in ZoneSet}

\* "2026-01-31T09:00:00": no offset
NoOffsetTs == [wall |-> 0, frac |-> "", zone |-> ""]

TsArgs == {None, Some(NoOffsetTs)} \cup {Some(t) : t \in TsSet}

\* new Date().toISOString(): the clock readings a read command may default to
NowSet == {[wall |-> w, frac |-> ".000", zone |-> "Z"] : w \in 0..MaxWall}

NameSet == {"Focus"}
NameArgs == {None} \cup {Some(n) : n \in NameSet}
RuleArgs == {None, Some("daily>=30m")}

\* --tz as add is given it in Spec: absent
TzArgs == {None}
\* --note / --tag as start is given them
StartExtras == {[note |-> None, tag |-> <<>>]}

\* --note / --tag as stop is given them: neither, or both
StopExtras == {[note |-> None, tag |-> <<>>], [note |-> Some("n"), tag |-> <<"t">>]}

\* ------------------------------------------------------------------- store
VARIABLES
  routines,        \* table routines: sequence of [name, tz, archived_at]
  sessions,        \* table sessions: sequence of [routine_id, start_ts, end_ts, note]
  session_events,  \* table session_events in rowid order: [session_id, type, ts]
  session_tags,    \* table session_tags: set of <<session_id, tag>>
  result,          \* what the last command printed
  replica,         \* a second database file, on which the same commands are replayed
  procs,           \* the CLI processes that are running: their in-memory databases
  runner           \* the step runner's process: its position in `run <file>`

vars == <<routines, sessions, session_events, session_tags, result, replica, procs, runner>>

store == <<routines, sessions, session_events, session_tags>>

\* "rtn_..." ids a caller may pass: those of the rows, and one of no row
RoutineIds == 1..(MaxRoutines + 1)

\* --session values: absent, or an id (of a row, or of none: the last one)
SessionArgs == {None} \cup {Some(i) : i \in 1..(MaxSessions + 1)}

\* --routine values: absent, an "rtn_..." id, or a name
RoutineArgs ==
  {None} \cup {Some([rtn |-> TRUE, id |-> i, name |-> ""]) : i \in RoutineIds}
         \cup {Some([rtn |-> FALSE, id |-> 0, name |-> n]) : n \in NameSet}

\* The four tables as one value, so that a command is a function of it.
DB ==
  [routines |-> routines, sessions |-> sessions,
   session_events |-> session_events, session_tags |-> session_tags]

\* ------------------------------------------------------------ buildSession
\* SELECT ... FROM session_events WHERE session_id = ?: the rowids
EventRows(db, sid) ==
  {i \in 1..Len(db.session_events) : db.session_events[i].session_id = sid}

\* Position of rowid i before rowid j in idx_session_events_session_ts,
\* the index on (session_id, ts) whose entries end with the rowid.
IndexBefore(db, i, j) ==
  \/ TextLess(db.session_events[i].ts, db.session_events[j].ts)
  \/ db.session_events[i].ts = db.session_events[j].ts /\ i < j

\* ORDER BY ts ASC over the rows S
RECURSIVE OrderByTsAsc(_, _)
OrderByTsAsc(db, S) ==
  IF S = {} THEN <<>>
  ELSE LET m == CHOOSE i \in S : \A j \in S \ {i} : IndexBefore(db, i, j)
       IN  <<db.session_events[m]>> \o OrderByTsAsc(db, S \ {m})

\* lastEvent with the scan direction mistaken: ORDER BY ts ASC LIMIT 1
lastEvent_Oldest(db, sid) ==
  LET S == EventRows(db, sid)
  IN  IF S = {} THEN None
      ELSE Some(db.session_events[CHOOSE i \in S : \A j \in S \ {i} : IndexBefore(db, i, j)])

\* lastEvent taking, among the rows of the greatest ts, the one stored first
lastEvent_FirstOfTies(db, sid) ==
  LET S == EventRows(db, sid)
      after(i, j) == \/ TextLess(db.session_events[j].ts, db.session_events[i].ts)
                     \/ db.session_events[i].ts = db.session_events[j].ts /\ i < j
  IN  IF S = {} THEN None
      ELSE Some(db.session_events[CHOOSE i \in S : \A j \in S \ {i} : after(i, j)])

\* ORDER BY ts DESC LIMIT 1: the last entry of the index for this session
lastEvent(db, sid) ==
  LET S == EventRows(db, sid)
  IN  IF S = {} THEN None
      ELSE Some(db.session_events[CHOOSE i \in S : \A j \in S \ {i} : IndexBefore(db, j, i)])

\* The loop of session.js:38-48: state is [pauses, currentPause]
RECURSIVE WalkEvents(_, _, _)
WalkEvents(events, pauses, currentPause) ==
  IF events = <<>> THEN [pauses |-> pauses, currentPause |-> currentPause]
  ELSE LET evt == Head(events)
       IN  IF evt.type = "pause"
           THEN WalkEvents(Tail(events), pauses, Some([start |-> evt.ts, end |-> None]))
           ELSE IF evt.type = "resume" /\ IsSome(currentPause)
           THEN WalkEvents(Tail(events),
                           Append(pauses, [start |-> Val(currentPause).start, end |-> Some(evt.ts)]),
                           None)
           ELSE WalkEvents(Tail(events), pauses, currentPause)

\* pauses array, the open pause pushed last (session.js:50-52)
BuildPauses(db, sid) ==
  LET w == WalkEvents(OrderByTsAsc(db, EventRows(db, sid)), <<>>, None)
  IN  [pauses |-> IF IsSome(w.currentPause) THEN Append(w.pauses, Val(w.currentPause)) ELSE w.pauses,
       currentPause |-> w.currentPause]

\* session.js:55-60
ComputeStatus(row, currentPause) ==
  IF IsSome(row.end_ts) THEN "stopped"
  ELSE IF IsSome(currentPause) /\ ~IsSome(Val(currentPause).end) THEN "paused"
  ELSE "running"

\* PausedSeconds without the clipping of session.js:74-76: every interval is
\* counted from its own start to its own end
RECURSIVE PausedSeconds_Unclipped(_, _, _)
PausedSeconds_Unclipped(pauses, start_ts, effectiveEnd) ==
  IF pauses = <<>> THEN 0
  ELSE LET p == Head(pauses)
           pauseEnd == IF IsSome(p.end) THEN Val(p.end) ELSE effectiveEnd
       IN  secondsBetween(p.start, pauseEnd)
           + PausedSeconds_Unclipped(Tail(pauses), start_ts, effectiveEnd)

\* session.js:72-80
RECURSIVE PausedSeconds(_, _, _)
PausedSeconds(pauses, start_ts, effectiveEnd) ==
  IF pauses = <<>> THEN 0
  ELSE LET p == Head(pauses)
           pauseEnd == IF IsSome(p.end) THEN Val(p.end) ELSE effectiveEnd
           pStart == IF isAfter(p.start, start_ts) THEN p.start ELSE start_ts
           pEnd == IF isBefore(pauseEnd, effectiveEnd) THEN pauseEnd ELSE effectiveEnd
       IN  (IF isAfter(pEnd, pStart) THEN secondsBetween(pStart, pEnd) ELSE 0)
           + PausedSeconds(Tail(pauses), start_ts, effectiveEnd)

Max(a, b) == IF a >= b THEN a ELSE b

TagsOf(db, sid) == {t[2] : t \in {x \in db.session_tags : x[1] = sid}}

buildSession(db, sid, asOf) ==
  LET row == db.sessions[sid]
      b == BuildPauses(db, sid)
      effectiveEnd == IF IsSome(row.end_ts) THEN Val(row.end_ts) ELSE asOf
      durationSeconds == secondsBetween(row.start_ts, effectiveEnd)
      pausedSeconds == PausedSeconds(b.pauses, row.start_ts, effectiveEnd)
  IN  [id |-> sid,
       routineId |-> row.routine_id,
       start |-> row.start_ts,
       end |-> row.end_ts,
       status |-> ComputeStatus(row, b.currentPause),
       pauses |-> b.pauses,
       asOf |-> asOf,
       durationSeconds |-> durationSeconds,
       pausedSeconds |-> pausedSeconds,
       activeSeconds |-> Max(0, durationSeconds - pausedSeconds),
       note |-> row.note,
       tags |-> TagsOf(db, sid)]

\* SELECT * FROM sessions WHERE id = ? AND deleted_at IS NULL
getSession(db, sessionArg) ==
  IF IsSome(sessionArg) /\ Val(sessionArg) \in 1..Len(db.sessions)
  THEN Some(db.sessions[Val(sessionArg)])
  ELSE None

\* ---------------------------------------------------------------- results
\* What a command hands to the output: the error code or "OK", the
\* arguments it was called with, and the session view(s) it returns.
Ok(cmd, args, views) == [cmd |-> cmd, code |-> "OK", args |-> args, sessions |-> views]

Err(cmd, args, code) == [cmd |-> cmd, code |-> code, args |-> args, sessions |-> <<>>]

\* ------------------------------------------------------------- routine.js
\* !arg of an optional string: null, undefined and "" are falsy
Falsy(arg) == ~IsSome(arg) \/ Val(arg) = ""

\* Intl.DateTimeFormat().resolvedOptions().timeZone
getSystemTz == "Asia/Seoul"

\* routineAdd with a uniqueness check on the name
routineAdd_UniqueName(db, args) ==
  IF Falsy(args.name) \/ Falsy(args.rule) THEN [db |-> db, out |-> Err("add", args, "ERR_INVALID_ARGS")]
  ELSE IF ~IsSome(args.ts) THEN [db |-> db, out |-> Err("add", args, "ERR_TS_REQUIRED")]
  ELSE IF ~parseRFC3339(args.ts) THEN [db |-> db, out |-> Err("add", args, "ERR_INVALID_TIME_FORMAT")]
  ELSE IF \E i \in 1..Len(db.routines) : db.routines[i].name = Val(args.name)
  THEN [db |-> db, out |-> Err("add", args, "ERR_INVALID_ARGS")]
  ELSE [db |-> [db EXCEPT !.routines =
                  Append(@, [name |-> Val(args.name),
                             tz |-> IF Falsy(args.tz) THEN getSystemTz ELSE Val(args.tz),
                             archived_at |-> None])],
        out |-> Ok("add", args, <<>>)]

routineAdd(db, args) ==
  IF Falsy(args.name) THEN [db |-> db, out |-> Err("add", args, "ERR_INVALID_ARGS")]
  ELSE IF Falsy(args.rule) THEN [db |-> db, out |-> Err("add", args, "ERR_INVALID_ARGS")]
  ELSE IF ~IsSome(args.ts) THEN [db |-> db, out |-> Err("add", args, "ERR_TS_REQUIRED")]
  ELSE IF ~parseRFC3339(args.ts) THEN [db |-> db, out |-> Err("add", args, "ERR_INVALID_TIME_FORMAT")]
  ELSE LET tz == IF Falsy(args.tz) THEN getSystemTz ELSE Val(args.tz)
       IN  [db |-> [db EXCEPT !.routines = Append(@, [name |-> Val(args.name), tz |-> tz, archived_at |-> None])],
            out |-> Ok("add", args, <<>>)]

\* rows.map(r => ({ id: r.id, name: r.name, tz: r.tz }))
Candidates(db, rows) ==
  {[id |-> i, name |-> db.routines[i].name, tz |-> db.routines[i].tz] : i \in rows}

\* findRoutine returning the first matching row when several match
findRoutine_First(db, identifier) ==
  LET rows == {i \in 1..Len(db.routines) :
                 IF identifier.rtn THEN i = identifier.id ELSE db.routines[i].name = identifier.name}
  IN  IF rows = {} THEN [code |-> "ERR_ROUTINE_NOT_FOUND", id |-> 0, candidates |-> {}]
      ELSE [code |-> "OK", id |-> CHOOSE i \in rows : \A j \in rows : i <= j, candidates |-> {}]

\* findRoutine going on to the name lookup when no routine has the id
findRoutine_NameFallback(db, identifier) ==
  IF identifier.rtn /\ identifier.id \in 1..Len(db.routines)
  THEN [code |-> "OK", id |-> identifier.id, candidates |-> {}]
  ELSE LET rows == {i \in 1..Len(db.routines) : db.routines[i].name = identifier.name}
       IN  IF rows = {} THEN [code |-> "ERR_ROUTINE_NOT_FOUND", id |-> 0, candidates |-> {}]
           ELSE IF Cardinality(rows) > 1
           THEN [code |-> "ERR_AMBIGUOUS_ROUTINE", id |-> 0, candidates |-> Candidates(db, rows)]
           ELSE [code |-> "OK", id |-> CHOOSE i \in rows : TRUE, candidates |-> {}]

\* Returns the error code with the candidates its details carry, or "OK" and
\* the routine's id.
findRoutine(db, identifier) ==
  IF identifier.rtn
  THEN IF identifier.id \in 1..Len(db.routines)
       THEN [code |-> "OK", id |-> identifier.id, candidates |-> {}]
       ELSE [code |-> "ERR_ROUTINE_NOT_FOUND", id |-> 0, candidates |-> {}]
  ELSE LET rows == {i \in 1..Len(db.routines) : db.routines[i].name = identifier.name}
       IN  IF rows = {} THEN [code |-> "ERR_ROUTINE_NOT_FOUND", id |-> 0, candidates |-> {}]
           ELSE IF Cardinality(rows) > 1
           THEN [code |-> "ERR_AMBIGUOUS_ROUTINE", id |-> 0, candidates |-> Candidates(db, rows)]
           ELSE [code |-> "OK", id |-> CHOOSE i \in rows : TRUE, candidates |-> {}]

\* ------------------------------------------------------------- session.js
\* The tag loops: INSERT (fails on a stored pair) or INSERT OR IGNORE.
\* Every statement is saved when it runs, so the tags before a failure stay.
RECURSIVE InsertTags(_, _, _, _)
InsertTags(tags, sid, tagArgs, orIgnore) ==
  IF tagArgs = <<>> THEN [tags |-> tags, failed |-> FALSE]
  ELSE LET pair == <<sid, Head(tagArgs)>>
       IN  IF pair \in tags
           THEN IF orIgnore THEN InsertTags(tags, sid, Tail(tagArgs), orIgnore)
                ELSE [tags |-> tags, failed |-> TRUE]
           ELSE InsertTags(tags \cup {pair}, sid, Tail(tagArgs), orIgnore)

\* !args.routine: no --routine, or an empty one
NoRoutine(arg) == ~IsSome(arg) \/ (~Val(arg).rtn /\ Val(arg).name = "")

\* sessionStart refusing a routine that already has an open session
sessionStart_OneOpenPerRoutine(db, args) ==
  IF NoRoutine(args.routine) THEN [db |-> db, out |-> Err("start", args, "ERR_INVALID_ARGS")]
  ELSE IF ~IsSome(args.ts) THEN [db |-> db, out |-> Err("start", args, "ERR_TS_REQUIRED")]
  ELSE IF ~parseRFC3339(args.ts) THEN [db |-> db, out |-> Err("start", args, "ERR_INVALID_TIME_FORMAT")]
  ELSE LET found == findRoutine(db, Val(args.routine))
       IN  IF found.code # "OK" THEN [db |-> db, out |-> Err("start", args, found.code)]
           ELSE IF \E i \in 1..Len(db.sessions) :
                     db.sessions[i].routine_id = found.id /\ ~IsSome(db.sessions[i].end_ts)
           THEN [db |-> db, out |-> Err("start", args, "ERR_INVALID_STATE")]
           ELSE LET sessionId == Len(db.sessions) + 1
                    row == [routine_id |-> found.id, start_ts |-> Val(args.ts),
                            end_ts |-> None, note |-> args.note]
                    db2 == [db EXCEPT !.sessions = Append(@, row)]
                IN  [db |-> db2, out |-> Ok("start", args, <<buildSession(db2, sessionId, Val(args.ts))>>)]

sessionStart(db, args) ==
  IF NoRoutine(args.routine) THEN [db |-> db, out |-> Err("start", args, "ERR_INVALID_ARGS")]
  ELSE IF ~IsSome(args.ts) THEN [db |-> db, out |-> Err("start", args, "ERR_TS_REQUIRED")]
  ELSE IF ~parseRFC3339(args.ts) THEN [db |-> db, out |-> Err("start", args, "ERR_INVALID_TIME_FORMAT")]
  ELSE LET found == findRoutine(db, Val(args.routine))
       IN  IF found.code # "OK" THEN [db |-> db, out |-> Err("start", args, found.code)]
           ELSE LET sessionId == Len(db.sessions) + 1
                    now == Val(args.ts)
                    row == [routine_id |-> found.id, start_ts |-> now,
                            end_ts |-> None,
                            note |-> IF Falsy(args.note) THEN None ELSE args.note]
                    ins == InsertTags(db.session_tags, sessionId, args.tag, FALSE)
                    db2 == [db EXCEPT !.sessions = Append(@, row), !.session_tags = ins.tags]
                IN  IF ins.failed THEN [db |-> db2, out |-> Err("start", args, "ERR_INTERNAL")]
                    ELSE [db |-> db2, out |-> Ok("start", args, <<buildSession(db2, sessionId, now)>>)]

\* InsertEvent as an upsert keyed by (session_id, type): the new row takes
\* the place of the session's earlier rows of that type
InsertEvent_Upsert(db, sid, type, ts) ==
  LET Others(e) == ~(e.session_id = sid /\ e.type = type)
  IN  [db EXCEPT !.session_events =
         Append(SelectSeq(@, Others), [session_id |-> sid, type |-> type, ts |-> ts])]

\* INSERT INTO session_events (id, session_id, type, ts, created_at)
InsertEvent(db, sid, type, ts) ==
  [db EXCEPT !.session_events = Append(@, [session_id |-> sid, type |-> type, ts |-> ts])]

\* WHERE end_ts IS NULL AND deleted_at IS NULL ORDER BY start_ts ASC, id ASC
RECURSIVE OrderByStartId(_, _)
OrderByStartId(db, S) ==
  IF S = {} THEN <<>>
  ELSE LET before(i, j) == \/ TextLess(db.sessions[i].start_ts, db.sessions[j].start_ts)
                           \/ db.sessions[i].start_ts = db.sessions[j].start_ts /\ i < j
           m == CHOOSE i \in S : \A j \in S \ {i} : before(i, j)
       IN  <<m>> \o OrderByStartId(db, S \ {m})

\* activeSessions listing every session, stopped ones included
activeSessions_EverySession(db) ==
  LET rows == {i \in 1..Len(db.sessions) : db.sessions[i].routine_id \in 1..Len(db.routines)}
      ids == OrderByStartId(db, rows)
  IN  [k \in 1..Len(ids) |->
         [id |-> ids[k],
          routineId |-> db.sessions[ids[k]].routine_id,
          routineName |-> db.routines[db.sessions[ids[k]].routine_id].name,
          start |-> db.sessions[ids[k]].start_ts]]

\* The error details of session.js:227-240: sessions JOIN routines WHERE
\* end_ts IS NULL AND deleted_at IS NULL ORDER BY start_ts ASC (rows of
\* equal start_ts come in rowid order)
activeSessions(db) ==
  LET rows == {i \in 1..Len(db.sessions) :
                 /\ ~IsSome(db.sessions[i].end_ts)
                 /\ db.sessions[i].routine_id \in 1..Len(db.routines)}
      ids == OrderByStartId(db, rows)
  IN  [k \in 1..Len(ids) |->
         [id |-> ids[k],
          routineId |-> db.sessions[ids[k]].routine_id,
          routineName |-> db.routines[db.sessions[ids[k]].routine_id].name,
          start |-> db.sessions[ids[k]].start_ts]]

\* throw new CLIError(code, ...) of pause, resume and stop before any
\* write: ERR_SESSION_REQUIRED carries { activeSessions }
ErrOpen(db, cmd, args, code) ==
  IF code = "ERR_SESSION_REQUIRED"
  THEN [cmd |-> cmd, code |-> code, args |-> args, sessions |-> <<>>,
        details |-> activeSessions(db)]
  ELSE Err(cmd, args, code)

\* CheckOpen without the end_ts test
CheckOpen_NoEndCheck(db, args) ==
  IF ~IsSome(args.session) THEN "ERR_SESSION_REQUIRED"
  ELSE IF ~IsSome(args.ts) THEN "ERR_TS_REQUIRED"
  ELSE IF ~parseRFC3339(args.ts) THEN "ERR_INVALID_TIME_FORMAT"
  ELSE IF ~IsSome(getSession(db, args.session)) THEN "ERR_SESSION_NOT_FOUND"
  ELSE "OK"

\* CheckOpen with the --ts test placed after the session lookup
CheckOpen_TsAfterLookup(db, args) ==
  IF ~IsSome(args.session) THEN "ERR_SESSION_REQUIRED"
  ELSE IF ~IsSome(getSession(db, args.session)) THEN "ERR_SESSION_NOT_FOUND"
  ELSE IF ~IsSome(args.ts) THEN "ERR_TS_REQUIRED"
  ELSE IF ~parseRFC3339(args.ts) THEN "ERR_INVALID_TIME_FORMAT"
  ELSE IF IsSome(Val(getSession(db, args.session)).end_ts) THEN "ERR_SESSION_NOT_ACTIVE"
  ELSE "OK"

\* The checks pause, resume and stop share (session.js:226-260); "OK" when
\* the session exists and has no end_ts.
CheckOpen(db, args) ==
  IF ~IsSome(args.session) THEN "ERR_SESSION_REQUIRED"
  ELSE IF ~IsSome(args.ts) THEN "ERR_TS_REQUIRED"
  ELSE IF ~parseRFC3339(args.ts) THEN "ERR_INVALID_TIME_FORMAT"
  ELSE IF ~IsSome(getSession(db, args.session)) THEN "ERR_SESSION_NOT_FOUND"
  ELSE IF IsSome(Val(getSession(db, args.session)).end_ts) THEN "ERR_SESSION_NOT_ACTIVE"
  ELSE "OK"

\* LastIsPause asking whether the session has any pause event at all
LastIsPause_AnyPause(db, sid) ==
  \E i \in EventRows(db, sid) : db.session_events[i].type = "pause"

\* lastEvent && lastEvent.type === 'pause'
LastIsPause(db, sid) ==
  LET e == lastEvent(db, sid) IN IsSome(e) /\ Val(e).type = "pause"

\* sessionPause asking for the last event before it looks at end_ts
sessionPause_StateFirst(db, args) ==
  LET chk == CheckOpen_NoEndCheck(db, args)
  IN  IF chk # "OK" THEN [db |-> db, out |-> ErrOpen(db, "pause", args, chk)]
      ELSE LET sid == Val(args.session)
               ts == Val(args.ts)
           IN  IF LastIsPause(db, sid)
               THEN [db |-> db, out |-> Err("pause", args, "ERR_INVALID_STATE")]
               ELSE IF IsSome(db.sessions[sid].end_ts)
               THEN [db |-> db, out |-> Err("pause", args, "ERR_SESSION_NOT_ACTIVE")]
               ELSE LET db2 == InsertEvent(db, sid, "pause", ts)
                    IN  [db |-> db2, out |-> Ok("pause", args, <<buildSession(db2, sid, ts)>>)]

sessionPause(db, args) ==
  LET chk == CheckOpen(db, args)
  IN  IF chk # "OK" THEN [db |-> db, out |-> ErrOpen(db, "pause", args, chk)]
      ELSE LET sid == Val(args.session)
               ts == Val(args.ts)
           IN  IF LastIsPause(db, sid)
               THEN [db |-> db, out |-> Err("pause", args, "ERR_INVALID_STATE")]
               ELSE LET db2 == InsertEvent(db, sid, "pause", ts)
                    IN  [db |-> db2, out |-> Ok("pause", args, <<buildSession(db2, sid, ts)>>)]

sessionResume(db, args) ==
  LET chk == CheckOpen(db, args)
  IN  IF chk # "OK" THEN [db |-> db, out |-> ErrOpen(db, "resume", args, chk)]
      ELSE LET sid == Val(args.session)
               ts == Val(args.ts)
           IN  IF ~LastIsPause(db, sid)
               THEN [db |-> db, out |-> Err("resume", args, "ERR_INVALID_STATE")]
               ELSE LET db2 == InsertEvent(db, sid, "resume", ts)
                    IN  [db |-> db2, out |-> Ok("resume", args, <<buildSession(db2, sid, ts)>>)]

\* UpdateEnd without its WHERE id = ?: every open session is ended
UpdateEnd_EveryOpen(db, sid, ts, note) ==
  [db EXCEPT !.sessions =
     [i \in 1..Len(@) |->
        IF IsSome(@[i].end_ts) THEN @[i]
        ELSE [@[i] EXCEPT !.end_ts = Some(ts), !.note = IF IsSome(note) THEN note ELSE @]]]

\* UpdateEnd writing the note it is given, an absent one included
UpdateEnd_NoteReplaced(db, sid, ts, note) ==
  [db EXCEPT !.sessions[sid].end_ts = Some(ts),
             !.sessions[sid].note = IF Falsy(note) THEN None ELSE note]

\* UPDATE sessions SET end_ts = ?, note = COALESCE(?, note) WHERE id = ?,
\* run with args.note || null
UpdateEnd(db, sid, ts, note) ==
  [db EXCEPT !.sessions[sid].end_ts = Some(ts),
             !.sessions[sid].note = IF Falsy(note) THEN @ ELSE note]

\* EndBeforeStart comparing the two texts instead of the two instants
EndBeforeStart_Text(ts, start_ts) == TextLess(ts, start_ts)

\* EndBeforeStart comparing the wall-clock fields and ignoring the offsets
EndBeforeStart_WallOnly(ts, start_ts) == ts.wall < start_ts.wall

\* isBefore(args.ts, row.start_ts), session.js:395
EndBeforeStart(ts, start_ts) == isBefore(ts, start_ts)

sessionStop(db, args) ==
  LET chk == CheckOpen(db, args)
  IN  IF chk # "OK" THEN [db |-> db, out |-> ErrOpen(db, "stop", args, chk)]
      ELSE LET sid == Val(args.session)
               ts == Val(args.ts)
               row == Val(getSession(db, args.session))
           IN  IF EndBeforeStart(ts, row.start_ts)
               THEN [db |-> db, out |-> Err("stop", args, "ERR_END_BEFORE_START")]
               ELSE LET db2 == IF LastIsPause(db, sid) THEN InsertEvent(db, sid, "resume", ts) ELSE db
                        db3 == UpdateEnd(db2, sid, ts, args.note)
                        ins == InsertTags(db3.session_tags, sid, args.tag, TRUE)
                        db4 == [db3 EXCEPT !.session_tags = ins.tags]
                    IN  [db |-> db4, out |-> Ok("stop", args, <<buildSession(db4, sid, ts)>>)]

ViewsOf(db, ids, asOf) == [k \in 1..Len(ids) |-> buildSession(db, ids[k], asOf)]

\* now is the clock reading used when --as-of is absent
sessionActive(db, args, now) ==
  LET asOf == IF IsSome(args.asOf) THEN Val(args.asOf) ELSE now
  IN  IF IsSome(args.asOf) /\ ~parseRFC3339(args.asOf)
      THEN [db |-> db, out |-> Err("active", args, "ERR_INVALID_TIME_FORMAT")]
      ELSE LET rows == {i \in 1..Len(db.sessions) : ~IsSome(db.sessions[i].end_ts)}
           IN  [db |-> db, out |-> Ok("active", args, ViewsOf(db, OrderByStartId(db, rows), asOf))]

sessionStatus(db, args, now) ==
  LET asOf == IF IsSome(args.asOf) THEN Val(args.asOf) ELSE now
  IN  IF IsSome(args.asOf) /\ ~parseRFC3339(args.asOf)
      THEN [db |-> db, out |-> Err("status", args, "ERR_INVALID_TIME_FORMAT")]
      ELSE IF IsSome(args.session)
      THEN IF ~IsSome(getSession(db, args.session))
           THEN [db |-> db, out |-> Err("status", args, "ERR_SESSION_NOT_FOUND")]
           ELSE [db |-> db, out |-> Ok("status", args, <<buildSession(db, Val(args.session), asOf)>>)]
      ELSE IF ~NoRoutine(args.routine)
      THEN LET found == findRoutine(db, Val(args.routine))
           IN  IF found.code # "OK" THEN [db |-> db, out |-> Err("status", args, found.code)]
               ELSE LET rows == {i \in 1..Len(db.sessions) :
                                   /\ db.sessions[i].routine_id = found.id
                                   /\ ~IsSome(db.sessions[i].end_ts)}
                    IN  [db |-> db, out |-> Ok("status", args, ViewsOf(db, OrderByStartId(db, rows), asOf))]
      ELSE LET r == sessionActive(db, args, now)
           IN  [db |-> db, out |-> [r.out EXCEPT !.cmd = "status"]]

\* --------------------------------------------------------------- today.js
\* Minutes east of UTC of an IANA zone on the day of the model's instants
TzOffsetMinutes(tz) ==
  CASE tz = "Asia/Seoul" -> 540
    [] tz = "America/New_York" -> 0 - 300
    [] OTHER -> 0

\* A calendar day is counted from the day of wall 0: the day that holds
\* instant ms, read on a clock offsetMinutes east of UTC.
DayOfInstant(ms, offsetMinutes) == (ms + offsetMinutes * 60000) \div 86400000

\* getDateInTz(ts, tz): Intl.DateTimeFormat('en-CA', {timeZone: tz})
getDateInTz(ts, tz) == DayOfInstant(getTime(ts), TzOffsetMinutes(tz))

\* SQLite's date(ts): the text's offset is applied and the UTC day returned
SqlDate(ts) == DayOfInstant(getTime(ts), 0)

\* isValidDate of a --date value [valid, day]
isValidDate(date) == date.valid

\* The loop of today.js:162-170: state is [pauses, currentPause]
RECURSIVE TodayWalk(_, _, _)
TodayWalk(events, pauses, currentPause) ==
  IF events = <<>> THEN [pauses |-> pauses, currentPause |-> currentPause]
  ELSE LET evt == Head(events)
       IN  IF evt.type = "pause"
           THEN TodayWalk(Tail(events), pauses, Some([start |-> evt.ts, end |-> None]))
           ELSE IF evt.type = "resume" /\ IsSome(currentPause)
           THEN TodayWalk(Tail(events),
                          Append(pauses, [start |-> Val(currentPause).start, end |-> Some(evt.ts)]),
                          None)
           ELSE TodayWalk(Tail(events), pauses, currentPause)

\* today.js:192-200
RECURSIVE TodayPausedSeconds(_, _, _)
TodayPausedSeconds(pauses, start_ts, effectiveEnd) ==
  IF pauses = <<>> THEN 0
  ELSE LET p == Head(pauses)
           pauseEnd == IF IsSome(p.end) THEN Val(p.end) ELSE effectiveEnd
           pStart == IF isAfter(p.start, start_ts) THEN p.start ELSE start_ts
           pEnd == IF isBefore(pauseEnd, effectiveEnd) THEN pauseEnd ELSE effectiveEnd
       IN  (IF isAfter(pEnd, pStart) THEN secondsBetween(pStart, pEnd) ELSE 0)
           + TodayPausedSeconds(Tail(pauses), start_ts, effectiveEnd)

\* The body of the loop over rows with the open pause left out of the
\* pauses array
todayView_OpenPauseDropped(db, sid, asOf) ==
  LET row == db.sessions[sid]
      w == TodayWalk(OrderByTsAsc(db, EventRows(db, sid)), <<>>, None)
      pauses == w.pauses
      status == IF IsSome(row.end_ts) THEN "stopped"
                ELSE IF IsSome(w.currentPause) /\ ~IsSome(Val(w.currentPause).end) THEN "paused"
                ELSE "running"
      effectiveEnd == IF IsSome(row.end_ts) THEN Val(row.end_ts) ELSE asOf
      durationSeconds == secondsBetween(row.start_ts, effectiveEnd)
      pausedSeconds == TodayPausedSeconds(pauses, row.start_ts, effectiveEnd)
  IN  [id |-> sid,
       routineId |-> row.routine_id,
       routineName |-> db.routines[row.routine_id].name,
       start |-> row.start_ts,
       end |-> row.end_ts,
       status |-> status,
       pauses |-> pauses,
       asOf |-> asOf,
       durationSeconds |-> durationSeconds,
       pausedSeconds |-> pausedSeconds,
       activeSeconds |-> Max(0, durationSeconds - pausedSeconds),
       note |-> row.note,
       tags |-> TagsOf(db, sid)]

\* The body of the loop over rows (today.js:150-221): the session object
\* built for one row
todayView(db, sid, asOf) ==
  LET row == db.sessions[sid]
      w == TodayWalk(OrderByTsAsc(db, EventRows(db, sid)), <<>>, None)
      pauses == IF IsSome(w.currentPause) THEN Append(w.pauses, Val(w.currentPause)) ELSE w.pauses
      status == IF IsSome(row.end_ts) THEN "stopped"
                ELSE IF IsSome(w.currentPause) /\ ~IsSome(Val(w.currentPause).end) THEN "paused"
                ELSE "running"
      effectiveEnd == IF IsSome(row.end_ts) THEN Val(row.end_ts) ELSE asOf
      durationSeconds == secondsBetween(row.start_ts, effectiveEnd)
      pausedSeconds == TodayPausedSeconds(pauses, row.start_ts, effectiveEnd)
  IN  [id |-> sid,
       routineId |-> row.routine_id,
       routineName |-> db.routines[row.routine_id].name,
       start |-> row.start_ts,
       end |-> row.end_ts,
       status |-> status,
       pauses |-> pauses,
       asOf |-> asOf,
       durationSeconds |-> durationSeconds,
       pausedSeconds |-> pausedSeconds,
       activeSeconds |-> Max(0, durationSeconds - pausedSeconds),
       note |-> row.note,
       tags |-> TagsOf(db, sid)]

\* The totals counting the sessions that are stopped only
RECURSIVE TodayTotals_StoppedOnly(_, _)
TodayTotals_StoppedOnly(views, acc) ==
  IF views = <<>> THEN acc
  ELSE LET v == Head(views)
       IN  IF v.status # "stopped" THEN TodayTotals_StoppedOnly(Tail(views), acc)
           ELSE TodayTotals_StoppedOnly(Tail(views),
                  [durationSeconds |-> acc.durationSeconds + v.durationSeconds,
                   activeSeconds |-> acc.activeSeconds + v.activeSeconds,
                   pausedSeconds |-> acc.pausedSeconds + v.pausedSeconds,
                   sessionsCount |-> acc.sessionsCount + 1])

\* totalDuration, totalActive, totalPaused as the loop adds to them
\* (today.js:223-226), and sessions.length as sessions.push grows it
RECURSIVE TodayTotals(_, _)
TodayTotals(views, acc) ==
  IF views = <<>> THEN acc
  ELSE LET v == Head(views)
       IN  TodayTotals(Tail(views),
             [durationSeconds |-> acc.durationSeconds + v.durationSeconds,
              activeSeconds |-> acc.activeSeconds + v.activeSeconds,
              pausedSeconds |-> acc.pausedSeconds + v.pausedSeconds,
              sessionsCount |-> acc.sessionsCount + 1])

ZeroTotals == [durationSeconds |-> 0, activeSeconds |-> 0, pausedSeconds |-> 0, sessionsCount |-> 0]

\* The rows of the query of today.js:118-142, in its order.  --as-of is
\* used as given: todaySummary does not parse it.
TodayRows(db, routineFilter, date) ==
  OrderByStartId(db,
    {i \in 1..Len(db.sessions) :
       /\ db.sessions[i].routine_id \in 1..Len(db.routines)
       /\ IsSome(routineFilter) => db.sessions[i].routine_id = Val(routineFilter)
       /\ SqlDate(db.sessions[i].start_ts) <= date
       /\ ~IsSome(db.sessions[i].end_ts) \/ SqlDate(Val(db.sessions[i].end_ts)) >= date})

\* now is the clock reading behind getCurrentDate and nowRFC3339
todaySummary(db, args, now) ==
  LET found == IF IsSome(args.routine) THEN findRoutine(db, Val(args.routine))
               ELSE [code |-> "OK", id |-> 0, candidates |-> {}]
  IN  IF found.code # "OK" THEN [db |-> db, out |-> Err("today", args, found.code)]
      ELSE LET routineFilter == IF IsSome(args.routine) THEN Some(found.id) ELSE None
               tz == IF ~Falsy(args.tz) THEN Val(args.tz)
                     ELSE IF IsSome(args.routine) THEN db.routines[found.id].tz
                     ELSE getSystemTz
           IN  IF IsSome(args.date) /\ ~isValidDate(Val(args.date))
               THEN [db |-> db, out |-> Err("today", args, "ERR_INVALID_TIME_FORMAT")]
               ELSE LET date == IF IsSome(args.date) THEN Val(args.date).day ELSE getDateInTz(now, tz)
                        rows == TodayRows(db, routineFilter, date)
                        asOf == IF IsSome(args.asOf) THEN Val(args.asOf) ELSE now
                        views == [k \in 1..Len(rows) |-> todayView(db, rows[k], asOf)]
                    IN  [db |-> db,
                         out |-> [cmd |-> "today", code |-> "OK", args |-> args,
                                  date |-> date, tz |-> tz, routineId |-> routineFilter,
                                  sessions |-> views,
                                  totals |-> TodayTotals(views, ZeroTotals)]]

\* ----------------------------------------------------------------- cli.js
\* executeCommand stamping a pause with the clock reading instead of --ts
executeCommand_ClockStamped(db, c, now) ==
  CASE c.command = "add" -> routineAdd(db, c.args)
    [] c.command = "start" -> sessionStart(db, c.args)
    [] c.command = "pause" ->
         sessionPause(db, [c.args EXCEPT !.ts = IF IsSome(@) THEN Some(now) ELSE @])
    [] c.command = "resume" -> sessionResume(db, c.args)
    [] c.command = "stop" -> sessionStop(db, c.args)
    [] c.command = "active" -> sessionActive(db, c.args, now)
    [] c.command = "status" -> sessionStatus(db, c.args, now)
    [] c.command = "today" -> todaySummary(db, c.args, now)
    [] OTHER -> [db |-> db, out |-> Err(c.command, c.args, "ERR_INVALID_ARGS")]

\* The switch of executeCommand; now is what the process's clock reads, and
\* only the read commands are handed it (nowRFC3339 in session.js:159, 185).
executeCommand(db, c, now) ==
  CASE c.command = "add" -> routineAdd(db, c.args)
    [] c.command = "start" -> sessionStart(db, c.args)
    [] c.command = "pause" -> sessionPause(db, c.args)
    [] c.command = "resume" -> sessionResume(db, c.args)
    [] c.command = "stop" -> sessionStop(db, c.args)
    [] c.command = "active" -> sessionActive(db, c.args, now)
    [] c.command = "status" -> sessionStatus(db, c.args, now)
    [] c.command = "today" -> todaySummary(db, c.args, now)
    [] OTHER -> [db |-> db, out |-> Err(c.command, c.args, "ERR_INVALID_ARGS")]

\* ----------------------------------------------------------------- actions
\* A database file that does not exist yet (initDb: new SQL.Database())
EmptyDB ==
  [routines |-> <<>>, sessions |-> <<>>, session_events |-> <<>>, session_tags |-> {}]

\* The CLI processes that may run at the same time
Procs == {1, 2}

\* A process that is not running
Idle ==
  [pc |-> "idle", c |-> [command |-> "none", args |-> <<>>], pre |-> EmptyDB, idx |-> 0,
   out |-> [cmd |-> "none", code |-> "OK", session |-> None]]

NoProcs == [p \in Procs |-> Idle]

\* ------------------------------------------------------------ step runner
\* type of a step in a routine file; "shell" is a type the schema does not know
StepTypes == {"exec", "sleep", "shell"}

\* the step lists of at most n steps
RECURSIVE StepLists(_)
StepLists(n) ==
  IF n = 0 THEN {<<>>}
  ELSE LET shorter == StepLists(n - 1)
       IN  shorter \cup {Append(l, t) : l \in {x \in shorter : Len(x) = n - 1}, t \in StepTypes}

\* What `run <file>` may find at the path: nothing, or a document with a
\* name and steps
RoutineFiles ==
  {[exists |-> e, name |-> n, steps |-> l] :
     e \in BOOLEAN, n \in {"ci", ""}, l \in StepLists(MaxSteps)}

\* RoutineSchema.safeParse: a non-empty name, at least one step, every step
\* of a type in the discriminated union
validateRoutine(data) ==
  /\ data.name # ""
  /\ Len(data.steps) >= 1
  /\ \A k \in 1..Len(data.steps) : data.steps[k] \in {"exec", "sleep", "http"}

\* loadRoutine: existsSync, then parse, then validateRoutine
loadRoutine(file) == file.exists /\ validateRoutine(file)

\* runStep: passed is what the spawned command (or the request) came to;
\* a sleep always succeeds, an unknown type never does
runStep(step, passed) ==
  CASE step = "exec" -> [success |-> passed]
    [] step = "sleep" -> [success |-> TRUE]
    [] step = "http" -> [success |-> passed]
    [] OTHER -> [success |-> FALSE]

\* The runner before `run`: no file loaded, nothing run, not exited
NoRun ==
  [pc |-> "idle", file |-> None, i |-> 0, results |-> <<>>, allPassed |-> TRUE,
   history |-> None, exit |-> None, execs |-> <<>>]

\* cmdRun up to the call of runRoutine: exit 2 without a file argument or
\* when loadRoutine fails
cmdRun(r, arg) ==
  IF ~IsSome(arg) THEN [r EXCEPT !.pc = "exited", !.exit = Some(2)]
  ELSE IF ~loadRoutine(Val(arg))
  THEN [r EXCEPT !.pc = "exited", !.file = arg, !.exit = Some(2)]
  ELSE [r EXCEPT !.pc = "running", !.file = arg]

\* one pass of the loop with the verdict taken from the last step alone
Iteration_LastStepDecides(r, passed) ==
  LET step == Val(r.file).steps[r.i + 1]
      res == runStep(step, passed)
  IN  [r EXCEPT !.results = Append(@, [type |-> step, success |-> res.success]),
                !.allPassed = res.success,
                !.i = @ + 1]

\* One pass of the for loop of runRoutine: the step is run, its result is
\* pushed, a failure clears allPassed, and the loop goes on to i + 1
Iteration(r, passed) ==
  LET step == Val(r.file).steps[r.i + 1]
      res == runStep(step, passed)
  IN  [r EXCEPT !.results = Append(@, [type |-> step, success |-> res.success]),
                !.allPassed = IF res.success THEN @ ELSE FALSE,
                !.i = @ + 1]

\* After the loop: saveHistory with the status, then
\* process.exit(runResult.success ? 0 : 1)
Finish(r) ==
  [r EXCEPT !.pc = "exited",
            !.history = Some(IF r.allPassed THEN "passed" ELSE "failed"),
            !.exit = Some(IF r.allPassed THEN 0 ELSE 1)]

\* ------------------------------------------------------ execStep callbacks
\* One call of execStep: the promise it returns, the timer it arms and the
\* child process it spawns.  result is the value the promise is settled
\* with (None while pending), calls counts the calls of resolve, awaited
\* says that runRoutine is still waiting for the promise.
NewExec ==
  [timer |-> "armed", killed |-> FALSE, closed |-> FALSE, errored |-> FALSE,
   result |-> None, calls |-> 0, awaited |-> TRUE]

\* exit codes `close` may report: 0, 1, or null for a child ended by a signal
CloseCodes == {Some(0), Some(1), None}

\* resolve replacing the value of a promise that is already settled
resolve_Overwrites(e, value) == [e EXCEPT !.result = Some(value), !.calls = @ + 1]

\* resolve(value): settles the promise if it is pending, does nothing after
resolve(e, value) ==
  [e EXCEPT !.result = IF IsSome(@) THEN @ ELSE Some(value), !.calls = @ + 1]

\* clearTimeout(timeout): a timer that has not run will not run
clearTimeout(e) == [e EXCEPT !.timer = IF @ = "armed" THEN "cleared" ELSE @]

TimeoutResult == [success |-> FALSE, error |-> "Timeout", exitCode |-> 0 - 1]

\* the callback of setTimeout (part_004:41-44)
onTimeout(e) ==
  resolve([e EXCEPT !.timer = "fired", !.killed = TRUE], TimeoutResult)

\* proc.on('close', (code) => ...) (part_004:46-54)
onClose(e, code) ==
  resolve(clearTimeout([e EXCEPT !.closed = TRUE]),
          [success |-> code = Some(0), error |-> "stderr",
           exitCode |-> IF IsSome(code) THEN Val(code) ELSE 0 - 1])

\* proc.on('error', (err) => ...) (part_004:56-59)
onError(e) ==
  resolve(clearTimeout([e EXCEPT !.errored = TRUE]),
          [success |-> FALSE, error |-> "err.message", exitCode |-> 0 - 1])

\* runStep of an exec step up to the await: the promise is created
spawnStep(r) == [r EXCEPT !.execs = Append(@, NewExec)]

\* the await of runRoutine continues with the value of the promise
awaited(r) ==
  LET k == Len(r.execs)
      r2 == Iteration(r, Val(r.execs[k].result).success)
  IN  [r2 EXCEPT !.execs[k].awaited = FALSE]

Init ==
  /\ routines = <<>>
  /\ sessions = <<>>
  /\ session_events = <<>>
  /\ session_tags = {}
  /\ result = [cmd |-> "none", code |-> "OK", session |-> None]
  /\ replica = EmptyDB
  /\ procs = NoProcs
  /\ runner = NoRun

\* One invocation of the CLI (cli.js main): the command runs on the store
\* and its result is printed.  The three Len guards are the model's bounds.
\* The part of a command's output the state keeps: the command, its code
\* ("OK" or the error code) and the session it returned or was aimed at.
Printed(out) ==
  [cmd |-> out.cmd, code |-> out.code,
   session |-> IF out.sessions # <<>> THEN Some(out.sessions[1].id)
               ELSE IF out.cmd \in {"pause", "resume", "stop"} THEN out.args.session
               ELSE None]

\* The database file becomes db (StatementWrapper._save writes the whole image).
Save(db) ==
  /\ routines' = db.routines
  /\ sessions' = db.sessions
  /\ session_events' = db.session_events
  /\ session_tags' = db.session_tags

\* The bounds of a specification: rows per table
Within(db, nRoutines, nSessions, nEvents) ==
  /\ Len(db.routines) <= nRoutines
  /\ Len(db.sessions) <= nSessions
  /\ Len(db.session_events) <= nEvents

\* One invocation that runs alone, from loading the file to printing.
Commit(r) ==
  /\ Save(r.db)
  /\ result' = Printed(r.out)

Run(r) ==
  /\ Within(r.db, MaxRoutines, MaxSessions, MaxEvents)
  /\ Commit(r)
  /\ UNCHANGED <<replica, procs, runner>>

Add ==
  \E name \in NameArgs, rule \in RuleArgs, ts \in TsArgs, tz \in TzArgs :
    Run(routineAdd(DB, [name |-> name, rule |-> rule, ts |-> ts, tz |-> tz]))

Start ==
  \E routine \in RoutineArgs, ts \in TsArgs, x \in StartExtras :
    Run(sessionStart(DB, [routine |-> routine, ts |-> ts, note |-> x.note, tag |-> x.tag]))

Pause ==
  \E session \in SessionArgs, ts \in TsArgs :
    Run(sessionPause(DB, [session |-> session, ts |-> ts]))

Resume ==
  \E session \in SessionArgs, ts \in TsArgs :
    Run(sessionResume(DB, [session |-> session, ts |-> ts]))

Stop ==
  \E session \in SessionArgs, ts \in TsArgs, x \in StopExtras :
    Run(sessionStop(DB, [session |-> session, ts |-> ts, note |-> x.note, tag |-> x.tag]))

Next == Add \/ Start \/ Pause \/ Resume \/ Stop

Spec == Init /\ [][Next]_vars

\* ------------------------------------------------ the routine directory
\* Names a caller may pass to add and to start: one that fits the safe-name
\* pattern and one that does not
DirNames == {"Focus", "a b"}
DirNameArgs == {None, Some("")} \cup {Some(n) : n \in DirNames}
DirRuleArgs == {None, Some(""), Some("daily>=30m")}
DirTzArgs == {None, Some("UTC")}
DirTsArgs == {None, Some(NoOffsetTs), Some([wall |-> 0, frac |-> "", zone |-> "Z"])}

\* --routine given as a name
ByName(n) == [rtn |-> FALSE, id |-> 0, name |-> n]

DirRoutineArgs ==
  {None} \cup {Some([rtn |-> TRUE, id |-> i, name |-> ""]) : i \in 1..(DirRoutines + 1)}
         \cup {Some(ByName(n)) : n \in DirNames \cup {""}}

DirRun(r) ==
  /\ Within(r.db, DirRoutines, DirSessions, 0)
  /\ Commit(r)
  /\ UNCHANGED <<replica, procs, runner>>

DirAdd ==
  \E name \in DirNameArgs, rule \in DirRuleArgs, ts \in DirTsArgs, tz \in DirTzArgs :
    DirRun(routineAdd(DB, [name |-> name, rule |-> rule, ts |-> ts, tz |-> tz]))

DirStart ==
  \E routine \in DirRoutineArgs, ts \in DirTsArgs, x \in StartExtras :
    DirRun(sessionStart(DB, [routine |-> routine, ts |-> ts, note |-> x.note, tag |-> x.tag]))

DirNext == DirAdd \/ DirStart

SpecDir == Init /\ [][DirNext]_vars

\* ------------------------------------------------ sessions side by side
MultiTsSet == {[wall |-> w, frac |-> "", zone |-> "Z"] : w \in {0, 1}}
MultiTsArgs == {None} \cup {Some(t) : t \in MultiTsSet}

MultiRoutineArgs ==
  {None} \cup {Some([rtn |-> TRUE, id |-> i, name |-> ""]) : i \in 1..(MultiRoutines + 1)}
         \cup {Some(ByName(n)) : n \in NameSet}

MultiSessionArgs == {None} \cup {Some(i) : i \in 1..(MultiSessions + 1)}

MultiRun(r) ==
  /\ Within(r.db, MultiRoutines, MultiSessions, MultiEvents)
  /\ Commit(r)
  /\ UNCHANGED <<replica, procs, runner>>

MultiAdd ==
  \E name \in NameArgs, rule \in RuleArgs, ts \in MultiTsArgs, tz \in TzArgs :
    MultiRun(routineAdd(DB, [name |-> name, rule |-> rule, ts |-> ts, tz |-> tz]))

MultiStart ==
  \E routine \in MultiRoutineArgs, ts \in MultiTsArgs, x \in StartExtras :
    MultiRun(sessionStart(DB, [routine |-> routine, ts |-> ts, note |-> x.note, tag |-> x.tag]))

MultiPause ==
  \E session \in MultiSessionArgs, ts \in MultiTsArgs :
    MultiRun(sessionPause(DB, [session |-> session, ts |-> ts]))

MultiResume ==
  \E session \in MultiSessionArgs, ts \in MultiTsArgs :
    MultiRun(sessionResume(DB, [session |-> session, ts |-> ts]))

MultiStop ==
  \E session \in MultiSessionArgs, ts \in MultiTsArgs, x \in StopExtras :
    MultiRun(sessionStop(DB, [session |-> session, ts |-> ts, note |-> x.note, tag |-> x.tag]))

MultiNext == MultiAdd \/ MultiStart \/ MultiPause \/ MultiResume \/ MultiStop

SpecMulti == Init /\ [][MultiNext]_vars

\* ------------------------------------------------------------ the replay
\* The same command line is run on the database file and, at another time,
\* on the replica.
AddCommands ==
  {[command |-> "add", args |-> [name |-> name, rule |-> rule, ts |-> ts, tz |-> tz]] :
     name \in NameArgs, rule \in RuleArgs, ts \in MultiTsArgs, tz \in TzArgs}

StartCommands ==
  {[command |-> "start", args |-> [routine |-> routine, ts |-> ts, note |-> x.note, tag |-> x.tag]] :
     routine \in RoutineArgs, ts \in MultiTsArgs, x \in StartExtras}

EventCommands ==
  {[command |-> k, args |-> [session |-> session, ts |-> ts]] :
     k \in {"pause", "resume"}, session \in SessionArgs, ts \in MultiTsArgs}

StopCommands ==
  {[command |-> "stop", args |-> [session |-> session, ts |-> ts, note |-> x.note, tag |-> x.tag]] :
     session \in SessionArgs, ts \in MultiTsArgs, x \in StopExtras}

Replay(c) ==
  \E now1 \in NowSet, now2 \in NowSet :
    LET r == executeCommand(DB, c, now1)
    IN  /\ Within(r.db, MaxRoutines, MaxSessions, MaxEvents)
        /\ Commit(r)
        /\ replica' = executeCommand(replica, c, now2).db
        /\ UNCHANGED <<procs, runner>>

ReplayAdd == \E c \in AddCommands : Replay(c)

ReplayStart == \E c \in StartCommands : Replay(c)

ReplayEvent == \E c \in EventCommands : Replay(c)

ReplayStop == \E c \in StopCommands : Replay(c)

ReplayNext == ReplayAdd \/ ReplayStart \/ ReplayEvent \/ ReplayStop

SpecReplay == Init /\ [][ReplayNext]_vars

\* ------------------------------------------------- processes side by side
\* A process reads the whole file into memory when it starts (initDb), works
\* on that copy, and writes the whole copy back after every statement it
\* runs (StatementWrapper.run).  Between two file operations of one process
\* the other process may read or write the file.

\* The images the tag loop saves: one per --tag, until an INSERT fails
RECURSIVE TagImages(_, _, _, _)
TagImages(db, sid, tagArgs, orIgnore) ==
  IF tagArgs = <<>> THEN <<>>
  ELSE LET pair == <<sid, Head(tagArgs)>>
       IN  IF pair \in db.session_tags /\ ~orIgnore THEN <<>>
           ELSE LET db2 == [db EXCEPT !.session_tags = @ \cup {pair}]
                IN  <<db2>> \o TagImages(db2, sid, Tail(tagArgs), orIgnore)

\* The images of a start that came to r: the INSERT INTO sessions, then the
\* tag loop
StartImages(db, r, tagArgs) ==
  IF r.db = db THEN <<>>
  ELSE LET db2 == [db EXCEPT !.sessions = Append(@, r.db.sessions[Len(r.db.sessions)])]
       IN  <<db2>> \o TagImages(db2, Len(db2.sessions), tagArgs, FALSE)

\* The images of a pause or resume that came to r: INSERT INTO
\* session_events, then UPDATE sessions SET updated_at
EventImages(r) == IF r.out.code = "OK" THEN <<r.db, r.db>> ELSE <<>>

\* The in-memory database after each statement that command c runs on the
\* image db, in order: what the process writes to the file, one by one.
Statements(db, c) ==
  CASE c.command = "add" ->
         LET r == routineAdd(db, c.args) IN IF r.out.code = "OK" THEN <<r.db>> ELSE <<>>
    [] c.command = "start" -> StartImages(db, sessionStart(db, c.args), c.args.tag)
    [] c.command = "pause" -> EventImages(sessionPause(db, c.args))
    [] c.command = "resume" -> EventImages(sessionResume(db, c.args))
    [] c.command = "stop" ->
         LET r == sessionStop(db, c.args)
         IN  IF r.out.code # "OK" THEN <<>>
             ELSE LET sid == Val(c.args.session)
                      ts == Val(c.args.ts)
                      db2 == IF LastIsPause(db, sid) THEN InsertEvent(db, sid, "resume", ts) ELSE db
                      db3 == UpdateEnd(db2, sid, ts, c.args.note)
                  IN  (IF LastIsPause(db, sid) THEN <<db2>> ELSE <<>>)
                      \o <<db3>> \o TagImages(db3, sid, c.args.tag, TRUE)
    [] OTHER -> <<>>

\* Every write of the process, from its start: initDb saves the image it
\* has just read twice (exec(SCHEMA), exec(INSERT OR REPLACE INTO schema_info))
Writes(db, c) == <<db, db>> \o Statements(db, c)

RaceTs(w) == Some([wall |-> w, frac |-> "", zone |-> "Z"])

\* The command lines of the racing processes
RaceCommands ==
  {[command |-> "add",
    args |-> [name |-> Some("Focus"), rule |-> Some("daily>=30m"), ts |-> RaceTs(0), tz |-> None]],
   [command |-> "start",
    args |-> [routine |-> Some(ByName("Focus")), ts |-> RaceTs(0), note |-> None, tag |-> <<>>]],
   [command |-> "stop",
    args |-> [session |-> Some(1), ts |-> RaceTs(1), note |-> None, tag |-> <<>>]]}
  \cup {[command |-> k, args |-> [session |-> Some(1), ts |-> RaceTs(1)]] : k \in {"pause", "resume"}}

\* readFileSync in initDb, and the run of the command on the copy
Loaded(p, c, r) ==
  /\ Within(r.db, MaxRoutines, MaxSessions, RaceEvents)
  /\ procs' = [procs EXCEPT ![p] =
                 [pc |-> "run", c |-> c, pre |-> DB, idx |-> 0, out |-> Printed(r.out)]]

Launch(p) ==
  /\ procs[p].pc = "idle"
  /\ \E c \in RaceCommands, now \in NowSet : Loaded(p, c, executeCommand(DB, c, now))
  /\ UNCHANGED <<store, result, replica, runner>>

\* writeFileSync of the next image
SaveNext(images, idx) ==
  /\ idx < Len(images)
  /\ Save(images[idx + 1])

WriteFile(p) ==
  /\ procs[p].pc = "run"
  /\ SaveNext(Writes(procs[p].pre, procs[p].c), procs[p].idx)
  /\ procs' = [procs EXCEPT ![p].idx = @ + 1]
  /\ UNCHANGED <<result, replica, runner>>

\* output and process.exit
Exit(p) ==
  /\ procs[p].pc = "run"
  /\ procs[p].idx = Len(Writes(procs[p].pre, procs[p].c))
  /\ result' = procs[p].out
  /\ procs' = [procs EXCEPT ![p] = Idle]
  /\ UNCHANGED <<store, replica, runner>>

RaceNext == \E p \in Procs : Launch(p) \/ WriteFile(p) \/ Exit(p)

SpecRace == Init /\ [][RaceNext]_vars

\* ------------------------------------------------------- reading the store
SessionRows == 1..Len(sessions)

IsOpen(sid) == ~IsSome(sessions[sid].end_ts)

\* status of the view of session sid (it does not depend on asOf)
StatusOf(db, sid) == buildSession(db, sid, db.sessions[sid].start_ts).status

\* the stored events of one session, in insertion order
EventsOf(db, sid) ==
  LET Mine(e) == e.session_id = sid IN SelectSeq(db.session_events, Mine)

\* This step is the run of a command whose outcome is r.
IsRun(r) ==
  /\ result' = Printed(r.out)
  /\ session_events' = r.db.session_events
  /\ sessions' = r.db.sessions
  /\ session_tags' = r.db.session_tags
  /\ routines' = r.db.routines

\* This step is the command pause / resume / stop with these arguments.
PauseCall(sid, ts) ==
  /\ result'.cmd = "pause"
  /\ result'.session = Some(sid)
  /\ IsRun(sessionPause(DB, [session |-> Some(sid), ts |-> Some(ts)]))

ResumeCall(sid, ts) ==
  /\ result'.cmd = "resume"
  /\ result'.session = Some(sid)
  /\ IsRun(sessionResume(DB, [session |-> Some(sid), ts |-> Some(ts)]))

StopCall(sid, ts) ==
  /\ result'.cmd = "stop"
  /\ result'.session = Some(sid)
  /\ \E x \in StopExtras :
       IsRun(sessionStop(DB, [session |-> Some(sid), ts |-> Some(ts), note |-> x.note, tag |-> x.tag]))

\* ------------------------------------------------------------------ claims

\* C1: for every reachable session and every query instant asOf not earlier
\* than the session's start, the view has
\* activeSeconds + pausedSeconds = durationSeconds.
C1_ActivePlusPausedIsDuration ==
  \A sid \in SessionRows, asOf \in TsSet :
    getTime(asOf) >= getTime(sessions[sid].start_ts) =>
      LET v == buildSession(DB, sid, asOf)
      IN  v.activeSeconds + v.pausedSeconds = v.durationSeconds

\* C2: when pause succeeds, the view it returns has status paused, and every
\* later view of that session has status paused until the next successful
\* resume or stop of it.
C2_PauseGivesPaused ==
  [][\A sid \in SessionRows :
       /\ \A ts \in TsSet :
            (result'.cmd = "pause" /\ result'.code = "OK" /\ PauseCall(sid, ts)) =>
               buildSession(DB', sid, ts).status = "paused"
       /\ (/\ IsOpen(sid) /\ StatusOf(DB, sid) = "paused"
           /\ ~(result'.cmd \in {"resume", "stop"} /\ result'.code = "OK"
                /\ result'.session = Some(sid)))
          => StatusOf(DB', sid) = "paused"]_vars

\* C3: when resume succeeds, the view it returns has status running, and
\* every later view of that session has status running until the next
\* successful pause or stop of it.
C3_ResumeGivesRunning ==
  [][\A sid \in SessionRows :
       /\ \A ts \in TsSet :
            (result'.cmd = "resume" /\ result'.code = "OK" /\ ResumeCall(sid, ts)) =>
               buildSession(DB', sid, ts).status = "running"
       /\ (/\ IsOpen(sid) /\ StatusOf(DB, sid) = "running"
           /\ EventsOf(DB, sid) # <<>>
           /\ ~(result'.cmd \in {"pause", "stop"} /\ result'.code = "OK"
                /\ result'.session = Some(sid)))
          => StatusOf(DB', sid) = "running"]_vars

\* C4: pause on an open session whose computed status is paused fails with
\* InvalidState for every instant, appends no event and leaves the store
\* unchanged.
C4_RepeatedPauseRejected ==
  [][\A sid \in SessionRows, ts \in TsSet :
       (/\ result'.cmd = "pause"
        /\ IsOpen(sid) /\ StatusOf(DB, sid) = "paused"
        /\ PauseCall(sid, ts))
         => (result'.code = "ERR_INVALID_STATE" /\ UNCHANGED store)]_vars

C4_Witness ==
  /\ result.cmd = "pause"
  /\ result.code = "ERR_INVALID_STATE"
  /\ IsSome(result.session)
  /\ Val(result.session) \in SessionRows
  /\ IsOpen(Val(result.session))
  /\ StatusOf(DB, Val(result.session)) = "paused"

\* C5: resume on an open session whose computed status is running (no
\* events, or the last event is a resume) fails with InvalidState for every
\* instant, appends no event and leaves the store unchanged.
C5_ResumeOfRunningRejected ==
  [][\A sid \in SessionRows, ts \in TsSet :
       (/\ result'.cmd = "resume"
        /\ IsOpen(sid) /\ StatusOf(DB, sid) = "running"
        /\ ResumeCall(sid, ts))
         => (result'.code = "ERR_INVALID_STATE" /\ UNCHANGED store)]_vars

C5_Witness ==
  /\ result.cmd = "resume"
  /\ result.code = "ERR_INVALID_STATE"
  /\ IsSome(result.session)
  /\ Val(result.session) \in SessionRows
  /\ IsOpen(Val(result.session))
  /\ StatusOf(DB, Val(result.session)) = "running"
  /\ EventsOf(DB, Val(result.session)) # <<>>

\* C6: when stop succeeds on a paused session, exactly one resume event with
\* the stop instant is appended and the end instant is set to it, and in the
\* resulting view the trailing pause interval is closed with its end equal
\* to the session's end.
C6_StopClosesTrailingPause ==
  [][\A sid \in SessionRows, ts \in TsSet :
       (/\ result'.cmd = "stop" /\ result'.code = "OK"
        /\ IsOpen(sid) /\ StatusOf(DB, sid) = "paused"
        /\ StopCall(sid, ts))
         => /\ EventsOf(DB', sid)
                 = Append(EventsOf(DB, sid), [session_id |-> sid, type |-> "resume", ts |-> ts])
            /\ sessions'[sid].end_ts = Some(ts)
            /\ LET v == buildSession(DB', sid, ts)
               IN  /\ v.pauses # <<>>
                   /\ v.pauses[Len(v.pauses)].end = v.end]_vars

\* C7: stopped is terminal: pause, resume and stop on a session that has an
\* end instant fail with SessionNotActive for every instant and leave the
\* store (end instant, events, note, tags) unchanged; an end instant once
\* set never changes.
C7_StoppedIsTerminal ==
  [][\A sid \in SessionRows :
       IsSome(sessions[sid].end_ts) =>
         /\ sessions'[sid].end_ts = sessions[sid].end_ts
         /\ \A ts \in TsSet :
              (/\ result'.cmd \in {"pause", "resume", "stop"}
               /\ \/ PauseCall(sid, ts)
                  \/ ResumeCall(sid, ts)
                  \/ StopCall(sid, ts))
                => (result'.code = "ERR_SESSION_NOT_ACTIVE" /\ UNCHANGED store)]_vars

\* a failed command on a stopped session with a note and a tag, which has
\* instants of TsSet before its start
C7_Witness ==
  /\ result.cmd \in {"pause", "resume", "stop"}
  /\ result.code = "ERR_SESSION_NOT_ACTIVE"
  /\ IsSome(result.session)
  /\ Val(result.session) \in SessionRows
  /\ IsSome(sessions[Val(result.session)].note)
  /\ TagsOf(DB, Val(result.session)) # {}
  /\ \E ts \in TsSet : getTime(ts) < getTime(sessions[Val(result.session)].start_ts)

\* C8: stop with an instant strictly earlier than the session's start fails
\* with EndBeforeStart; no event is appended and the end instant stays
\* absent, also when the session is paused.
C8_StopBeforeStartRejected ==
  [][\A sid \in SessionRows, ts \in TsSet :
       (/\ result'.cmd = "stop"
        /\ IsOpen(sid)
        /\ getTime(ts) < getTime(sessions[sid].start_ts)
        /\ StopCall(sid, ts))
         => (result'.code = "ERR_END_BEFORE_START" /\ UNCHANGED store)]_vars

C8_Witness ==
  /\ result.cmd = "stop"
  /\ result.code = "ERR_END_BEFORE_START"
  /\ IsSome(result.session)
  /\ Val(result.session) \in SessionRows
  /\ IsOpen(Val(result.session))
  /\ StatusOf(DB, Val(result.session)) = "paused"

\* the rows of one session ordered by instant, then by insertion
RECURSIVE EventsByInstant(_, _)
EventsByInstant(db, S) ==
  IF S = {} THEN <<>>
  ELSE LET before(i, j) ==
             \/ getTime(db.session_events[i].ts) < getTime(db.session_events[j].ts)
             \/ getTime(db.session_events[i].ts) = getTime(db.session_events[j].ts) /\ i < j
           m == CHOOSE i \in S : \A j \in S \ {i} : before(i, j)
       IN  <<db.session_events[m]>> \o EventsByInstant(db, S \ {m})

Alternates(events) ==
  \A k \in 1..Len(events) : events[k].type = IF k % 2 = 1 THEN "pause" ELSE "resume"

\* C9: in every reachable state each session's events, ordered by instant
\* and then by insertion order, alternate pause, resume, pause, ... starting
\* with a pause.
C9_EventsAlternate ==
  \A sid \in SessionRows : Alternates(EventsByInstant(DB, EventRows(DB, sid)))

\* C10: the event log is append-only: every step keeps the stored events and
\* adds at most one; a successful pause or resume adds exactly one event, of
\* its session, and a successful stop adds at most one.
C10_AppendOnly ==
  [][/\ Len(session_events') \in {Len(session_events), Len(session_events) + 1}
     /\ SubSeq(session_events', 1, Len(session_events)) = session_events
     /\ \A sid \in SessionRows, ts \in TsSet :
          /\ (result'.cmd = "pause" /\ result'.code = "OK" /\ PauseCall(sid, ts))
               => EventsOf(DB', sid)
                    = Append(EventsOf(DB, sid), [session_id |-> sid, type |-> "pause", ts |-> ts])
          /\ (result'.cmd = "resume" /\ result'.code = "OK" /\ ResumeCall(sid, ts))
               => EventsOf(DB', sid)
                    = Append(EventsOf(DB, sid), [session_id |-> sid, type |-> "resume", ts |-> ts])]_vars

\* a stop that appended its closing resume after an earlier pause and resume
C10_Witness ==
  /\ result.cmd = "stop"
  /\ result.code = "OK"
  /\ Len(session_events) >= 2
  /\ session_events[Len(session_events)].type = "resume"
  /\ Some(session_events[Len(session_events)].ts)
       = sessions[session_events[Len(session_events)].session_id].end_ts

\* C11: in every reachable state, every session that has an end instant has
\* its end not earlier than its start instant.
C11_EndNotBeforeStart ==
  \A sid \in SessionRows :
    IsSome(sessions[sid].end_ts) =>
      getTime(Val(sessions[sid].end_ts)) >= getTime(sessions[sid].start_ts)

\* a stopped session whose end text sorts before its start text, and whose
\* start has instants of TsSet before it
C11_Witness ==
  \E sid \in SessionRows :
    /\ IsSome(sessions[sid].end_ts)
    /\ TextLess(Val(sessions[sid].end_ts), sessions[sid].start_ts)
    /\ \E ts \in TsSet : getTime(ts) < getTime(sessions[sid].start_ts)

\* ------------------------------------------------ every call with a given --ts
\* The outcomes of add, start, pause, resume and stop on the store db when
\* --ts is ts, over every choice of the other arguments; complete tells
\* whether the command's other required arguments were given.
CallsWithTs(db, ts) ==
  {[r |-> routineAdd(db, [name |-> name, rule |-> rule, ts |-> ts, tz |-> tz]),
    complete |-> ~Falsy(name) /\ ~Falsy(rule), cmd |-> "add"] :
     name \in NameArgs \cup {Some("")}, rule \in RuleArgs \cup {Some("")}, tz \in TzArgs}
  \cup
  {[r |-> sessionStart(db, [routine |-> routine, ts |-> ts, note |-> x.note, tag |-> x.tag]),
    complete |-> ~NoRoutine(routine), cmd |-> "start"] :
     routine \in RoutineArgs, x \in StartExtras}
  \cup
  {[r |-> sessionPause(db, [session |-> session, ts |-> ts]),
    complete |-> IsSome(session), cmd |-> "pause"] : session \in SessionArgs}
  \cup
  {[r |-> sessionResume(db, [session |-> session, ts |-> ts]),
    complete |-> IsSome(session), cmd |-> "resume"] : session \in SessionArgs}
  \cup
  {[r |-> sessionStop(db, [session |-> session, ts |-> ts, note |-> x.note, tag |-> x.tag]),
    complete |-> IsSome(session), cmd |-> "stop"] :
     session \in SessionArgs, x \in StopExtras}

\* C16 as stated: every add, start, pause, resume and stop invoked without a
\* timestamp fails with ERR_TS_REQUIRED and changes no stored state.
C16_NoTsGivesTsRequired ==
  \A c \in CallsWithTs(DB, None) :
    c.r.out.code = "ERR_TS_REQUIRED" /\ c.r.db = DB

\* C16 amended: every add, start, pause, resume and stop invoked without a
\* timestamp, and with its other required arguments (name and rule, routine,
\* session) given, fails with ERR_TS_REQUIRED; and without a timestamp every
\* one of them fails and changes no stored state, whatever else is missing.
C16_NoTsGivesTsRequired_OthersGiven ==
  \A c \in CallsWithTs(DB, None) :
    /\ c.complete => c.r.out.code = "ERR_TS_REQUIRED"
    /\ c.r.out.code \in {"ERR_TS_REQUIRED", "ERR_INVALID_ARGS", "ERR_SESSION_REQUIRED"}
    /\ c.r.db = DB

\* a command on an open session of the store was refused for its missing --ts
C16_Witness ==
  /\ result.cmd \in {"pause", "resume", "stop"}
  /\ result.code = "ERR_TS_REQUIRED"
  /\ IsSome(result.session)
  /\ Val(result.session) \in SessionRows
  /\ IsOpen(Val(result.session))
  /\ routines # <<>>

\* C17: a timestamp without a UTC offset or Z given to start, pause, resume
\* or stop fails with InvalidTimeFormat whether or not the routine or session
\* it names exists or was given, and no state changes.
C17_NoOffsetGivesInvalidTimeFormat ==
  \A c \in CallsWithTs(DB, Some(NoOffsetTs)) :
    c.cmd # "add" => (c.r.out.code = "ERR_INVALID_TIME_FORMAT" /\ c.r.db = DB)

\* --------------------------------------------------- the step runner's run
\* `run <file>` is entered
RunnerStart ==
  /\ runner.pc = "idle"
  /\ \E arg \in {None} \cup {Some(f) : f \in RoutineFiles} : runner' = cmdRun(runner, arg)
  /\ UNCHANGED <<store, result, replica, procs>>

\* the next step is run to its end (await runStep)
RunnerStep ==
  /\ runner.pc = "running"
  /\ runner.i < Len(Val(runner.file).steps)
  /\ \E passed \in BOOLEAN : runner' = Iteration(runner, passed)
  /\ UNCHANGED <<store, result, replica, procs>>

\* the loop is left, the history is saved and the process exits
RunnerExit ==
  /\ runner.pc = "running"
  /\ runner.i >= Len(Val(runner.file).steps)
  /\ runner' = Finish(runner)
  /\ UNCHANGED <<store, result, replica, procs>>

RunnerNext == RunnerStart \/ RunnerStep \/ RunnerExit

SpecRunner == Init /\ [][RunnerNext]_vars

\* ------------------------------------------- the callbacks of an exec step
\* The event loop of the runner's process: between two awaits of
\* runRoutine any callback that is due may run, those of earlier exec
\* steps included.
Waiting == runner.execs # <<>> /\ runner.execs[Len(runner.execs)].awaited

\* the loop reaches an exec step: execStep creates the promise
ExecSpawn ==
  /\ runner.pc = "running" /\ ~Waiting
  /\ runner.i < Len(Val(runner.file).steps)
  /\ Val(runner.file).steps[runner.i + 1] = "exec"
  /\ Len(runner.execs) < MaxExecs
  /\ runner' = spawnStep(runner)
  /\ UNCHANGED <<store, result, replica, procs>>

\* the loop runs a step of another type to its end
ExecOther ==
  /\ runner.pc = "running" /\ ~Waiting
  /\ runner.i < Len(Val(runner.file).steps)
  /\ Val(runner.file).steps[runner.i + 1] # "exec"
  /\ runner' = Iteration(runner, TRUE)
  /\ UNCHANGED <<store, result, replica, procs>>

ExecTimeout ==
  /\ runner.pc = "running"
  /\ \E k \in 1..Len(runner.execs) :
       /\ runner.execs[k].timer = "armed"
       /\ runner' = [runner EXCEPT !.execs[k] = onTimeout(@)]
  /\ UNCHANGED <<store, result, replica, procs>>

\* the child's streams are closed: at most once for a child
ExecClose ==
  /\ runner.pc = "running"
  /\ \E k \in 1..Len(runner.execs), code \in CloseCodes :
       /\ ~runner.execs[k].closed
       /\ runner' = [runner EXCEPT !.execs[k] = onClose(@, code)]
  /\ UNCHANGED <<store, result, replica, procs>>

\* the child could not be spawned or could not be killed
ExecError ==
  /\ runner.pc = "running"
  /\ \E k \in 1..Len(runner.execs) :
       /\ ~runner.execs[k].errored
       /\ runner' = [runner EXCEPT !.execs[k] = onError(@)]
  /\ UNCHANGED <<store, result, replica, procs>>

\* the promise is settled: runRoutine goes on after its await
ExecAwaited ==
  /\ runner.pc = "running" /\ Waiting
  /\ IsSome(runner.execs[Len(runner.execs)].result)
  /\ runner' = awaited(runner)
  /\ UNCHANGED <<store, result, replica, procs>>

\* the loop is left and process.exit ends the process with its callbacks
ExecExit ==
  /\ runner.pc = "running" /\ ~Waiting
  /\ runner.i >= Len(Val(runner.file).steps)
  /\ runner' = Finish(runner)
  /\ UNCHANGED <<store, result, replica, procs>>

ExecNext ==
  \/ RunnerStart \/ ExecSpawn \/ ExecOther \/ ExecTimeout \/ ExecClose \/ ExecError
  \/ ExecAwaited \/ ExecExit

SpecExec == Init /\ [][ExecNext]_vars

\* ------------------------------------------------ the list of open sessions
\* Sessions started with timestamps of different offsets, and `active`
\* reading them.
ActiveRun(r) ==
  /\ Within(r.db, MaxRoutines, ActiveSessions, ActiveEvents)
  /\ Commit(r)
  /\ UNCHANGED <<replica, procs, runner>>

ActiveAdd ==
  \E name \in NameArgs, rule \in RuleArgs, ts \in TsArgs, tz \in TzArgs :
    ActiveRun(routineAdd(DB, [name |-> name, rule |-> rule, ts |-> ts, tz |-> tz]))

ActiveStart ==
  \E routine \in RoutineArgs, ts \in TsArgs, x \in StartExtras :
    ActiveRun(sessionStart(DB, [routine |-> routine, ts |-> ts, note |-> x.note, tag |-> x.tag]))

ActivePause ==
  \E session \in MultiSessionArgs, ts \in TsArgs :
    ActiveRun(sessionPause(DB, [session |-> session, ts |-> ts]))

ActiveStop ==
  \E session \in MultiSessionArgs, ts \in TsArgs, x \in StartExtras :
    ActiveRun(sessionStop(DB, [session |-> session, ts |-> ts, note |-> x.note, tag |-> x.tag]))

\* --as-of as `active` is given it: absent, without offset, or well-formed
AsOfArgs == TsArgs

ActiveList ==
  \E asOf \in AsOfArgs, now \in NowSet :
    ActiveRun(executeCommand(DB, [command |-> "active", args |-> [asOf |-> asOf]], now))

ActiveNext == ActiveAdd \/ ActiveStart \/ ActivePause \/ ActiveStop \/ ActiveList

SpecActive == Init /\ [][ActiveNext]_vars

\* ---------------------------------------------------------- the day summary
\* Sessions with pauses, on either side of midnight UTC, and `today`
\* reading them.
\* --ts as the commands are given it: midnight UTC, and 59 seconds before
\* it read on a clock a minute ahead (the later text, the earlier day)
TodayTsSet ==
  {[wall |-> 1, frac |-> "", zone |-> "+00:01"],
   [wall |-> 0, frac |-> "", zone |-> "Z"]}

TodayTsArgs == {Some(t) : t \in TodayTsSet}

TodayRun(r) ==
  /\ Within(r.db, MaxRoutines, TodaySessions, TodayEvents)
  /\ Commit(r)
  /\ UNCHANGED <<replica, procs, runner>>

TodayAdd ==
  \E name \in NameArgs, rule \in RuleArgs, ts \in TodayTsArgs, tz \in TzArgs :
    TodayRun(routineAdd(DB, [name |-> name, rule |-> rule, ts |-> ts, tz |-> tz]))

TodayStart ==
  \E routine \in RoutineArgs, ts \in TodayTsArgs, x \in StartExtras :
    TodayRun(sessionStart(DB, [routine |-> routine, ts |-> ts, note |-> x.note, tag |-> x.tag]))

TodayPause ==
  \E session \in MultiSessionArgs, ts \in TodayTsArgs :
    TodayRun(sessionPause(DB, [session |-> session, ts |-> ts]))

TodayResume ==
  \E session \in MultiSessionArgs, ts \in TodayTsArgs :
    TodayRun(sessionResume(DB, [session |-> session, ts |-> ts]))

TodayStop ==
  \E session \in MultiSessionArgs, ts \in TodayTsArgs, x \in StartExtras :
    TodayRun(sessionStop(DB, [session |-> session, ts |-> ts, note |-> x.note, tag |-> x.tag]))

\* --date: absent, the day of wall 0, or text that is no date
DateArgs == {None, Some([valid |-> TRUE, day |-> 0]), Some([valid |-> FALSE, day |-> 0])}

\* --tz as today is given it
TodayTzArgs == {None, Some("America/New_York")}

\* --as-of as today is given it: absent or well-formed
TodayAsOfArgs == {None} \cup TodayTsArgs

\* --routine as today is given it: absent, the name, or the id of no row
TodayRoutineArgs ==
  {None, Some([rtn |-> FALSE, id |-> 0, name |-> "Focus"]),
   Some([rtn |-> TRUE, id |-> MaxRoutines + 1, name |-> ""])}

TodayArgs ==
  [routine : TodayRoutineArgs, tz : TodayTzArgs, date : DateArgs, asOf : TodayAsOfArgs]

TodayShow ==
  \E args \in TodayArgs, now \in NowSet :
    TodayRun(executeCommand(DB, [command |-> "today", args |-> args], now))

TodayNext == TodayAdd \/ TodayStart \/ TodayPause \/ TodayResume \/ TodayStop \/ TodayShow

SpecToday == Init /\ [][TodayNext]_vars

\* ------------------------------------------- instants with sub-second parts
\* One session whose timestamps are given with and without a fraction of a
\* second, and `status` reading it.
FracTsSet == {[wall |-> w, frac |-> f, zone |-> "Z"] : w \in 0..MaxWall, f \in {"", ".5"}}
FracTsArgs == {None} \cup {Some(t) : t \in FracTsSet}

FracRun(r) ==
  /\ Within(r.db, MaxRoutines, MaxSessions, FracEvents)
  /\ Commit(r)
  /\ UNCHANGED <<replica, procs, runner>>

FracAdd ==
  \E name \in NameArgs, rule \in RuleArgs, ts \in FracTsArgs, tz \in TzArgs :
    FracRun(routineAdd(DB, [name |-> name, rule |-> rule, ts |-> ts, tz |-> tz]))

FracStart ==
  \E routine \in RoutineArgs, ts \in FracTsArgs, x \in StartExtras :
    FracRun(sessionStart(DB, [routine |-> routine, ts |-> ts, note |-> x.note, tag |-> x.tag]))

FracPause ==
  \E session \in SessionArgs, ts \in FracTsArgs :
    FracRun(sessionPause(DB, [session |-> session, ts |-> ts]))

FracResume ==
  \E session \in SessionArgs, ts \in FracTsArgs :
    FracRun(sessionResume(DB, [session |-> session, ts |-> ts]))

FracStatus ==
  \E session \in SessionArgs, asOf \in FracTsArgs, now \in NowSet :
    FracRun(executeCommand(DB, [command |-> "status",
                                args |-> [asOf |-> asOf, session |-> session, routine |-> None]], now))

FracNext == FracAdd \/ FracStart \/ FracPause \/ FracResume \/ FracStatus

SpecFrac == Init /\ [][FracNext]_vars

\* ------------------------------------------- routines named like identifiers
\* add takes any name, so a routine may be named with a text that begins
\* with rtn_: the identifier of a stored routine or of none.
\* The text of the identifier of row i
IdText(i) ==
  CASE i = 1 -> "rtn_1" [] i = 2 -> "rtn_2" [] i = 3 -> "rtn_3" [] i = 4 -> "rtn_4"
    [] OTHER -> "rtn_5"

PrefixNames == {"Focus", IdText(2)}
PrefixNameArgs == {None} \cup {Some(n) : n \in PrefixNames}

\* --routine given as a text that begins with rtn_: identifier.startsWith('rtn_')
ById(i) == [rtn |-> TRUE, id |-> i, name |-> IdText(i)]

PrefixRoutineArgs ==
  {None} \cup {Some(ById(i)) : i \in 1..(PrefixRoutines + 1)} \cup {Some(ByName("Focus"))}

PrefixRun(r) ==
  /\ Within(r.db, PrefixRoutines, PrefixSessions, 0)
  /\ Commit(r)
  /\ UNCHANGED <<replica, procs, runner>>

PrefixAdd ==
  \E name \in PrefixNameArgs, rule \in RuleArgs, ts \in DirTsArgs, tz \in DirTzArgs :
    PrefixRun(routineAdd(DB, [name |-> name, rule |-> rule, ts |-> ts, tz |-> tz]))

PrefixStart ==
  \E routine \in PrefixRoutineArgs, ts \in DirTsArgs, x \in StartExtras :
    PrefixRun(sessionStart(DB, [routine |-> routine, ts |-> ts, note |-> x.note, tag |-> x.tag]))

PrefixNext == PrefixAdd \/ PrefixStart

SpecPrefix == Init /\ [][PrefixNext]_vars

\* ------------------------------------------------------- notes and tags
\* One session that start and stop are given notes and tags for; --tag may
\* be repeated, with the same value too (parseArgs pushes every one).
TagStartExtras ==
  {[note |-> n, tag |-> t] : n \in {None, Some("a")}, t \in {<<>>, <<"t">>, <<"t", "t">>}}

TagStopExtras ==
  {[note |-> n, tag |-> t] :
     n \in {None, Some(""), Some("n")}, t \in {<<>>, <<"t">>, <<"u", "u">>, <<"t", "u">>}}

TagRun(r) ==
  /\ Within(r.db, MaxRoutines, MaxSessions, TagEvents)
  /\ Commit(r)
  /\ UNCHANGED <<replica, procs, runner>>

TagAdd ==
  \E name \in NameArgs, rule \in RuleArgs, ts \in MultiTsArgs, tz \in TzArgs :
    TagRun(routineAdd(DB, [name |-> name, rule |-> rule, ts |-> ts, tz |-> tz]))

TagStart ==
  \E routine \in RoutineArgs, ts \in MultiTsArgs, x \in TagStartExtras :
    TagRun(sessionStart(DB, [routine |-> routine, ts |-> ts, note |-> x.note, tag |-> x.tag]))

TagPause ==
  \E session \in SessionArgs, ts \in MultiTsArgs :
    TagRun(sessionPause(DB, [session |-> session, ts |-> ts]))

TagStop ==
  \E session \in SessionArgs, ts \in MultiTsArgs, x \in TagStopExtras :
    TagRun(sessionStop(DB, [session |-> session, ts |-> ts, note |-> x.note, tag |-> x.tag]))

TagNext == TagAdd \/ TagStart \/ TagPause \/ TagStop

SpecTags == Init /\ [][TagNext]_vars

\* ------------------------------------------------ claims on the directory
\* The text of a name, as character codes
NameText(n) ==
  CASE n = "Focus" -> <<70, 111, 99, 117, 115>>
    [] n = "a b" -> <<97, 32, 98>>
    [] OTHER -> <<>>

IsAlnum(c) == IsDigit(c) \/ (c >= 65 /\ c <= 90) \/ (c >= 97 /\ c <= 122)

\* /^[A-Za-z0-9][A-Za-z0-9._-]*$/.test(s)
SafeNamePattern(n) ==
  LET t == NameText(n)
  IN  /\ t # <<>>
      /\ IsAlnum(t[1])
      /\ \A i \in 2..Len(t) : IsAlnum(t[i]) \/ t[i] \in {46, 95, 45}

\* the rows of the non-archived routines named n
Named(db, n) ==
  {i \in 1..Len(db.routines) : db.routines[i].name = n /\ ~IsSome(db.routines[i].archived_at)}

\* C18: resolving a routine by name returns the routine when exactly one
\* non-archived routine has that name, fails with RoutineNotFound when none
\* has it, and fails with AmbiguousRoutine carrying every matching routine
\* (id, name, timezone) when two or more share it.
C18_NameLookup ==
  \A n \in DirNames :
    LET found == findRoutine(DB, ByName(n))
        rows == Named(DB, n)
    IN  /\ Cardinality(rows) = 1 => (found.code = "OK" /\ found.id \in rows)
        /\ rows = {} => found.code = "ERR_ROUTINE_NOT_FOUND"
        /\ Cardinality(rows) >= 2 =>
             /\ found.code = "ERR_AMBIGUOUS_ROUTINE"
             /\ found.candidates =
                  {[id |-> i, name |-> n, tz |-> routines[i].tz] : i \in rows}
             /\ Cardinality(found.candidates) = Cardinality(rows)

\* a start by name was refused as ambiguous while two routines of different
\* time zones share a name and the other name has exactly one routine
C18_Witness ==
  /\ result.cmd = "start"
  /\ result.code = "ERR_AMBIGUOUS_ROUTINE"
  /\ \E n \in DirNames, m \in DirNames :
       /\ Cardinality(Named(DB, n)) = 2
       /\ \E i \in Named(DB, n), j \in Named(DB, n) : routines[i].tz # routines[j].tz
       /\ Cardinality(Named(DB, m)) = 1

\* C19: add rejects, without creating a routine, every name that is empty or
\* does not match the safe-name pattern, and every empty rule string.
C19_AddValidatesNameAndRule ==
  \A name \in DirNameArgs, rule \in DirRuleArgs, ts \in DirTsArgs, tz \in DirTzArgs :
    (\/ (IsSome(name) /\ ~SafeNamePattern(Val(name)))
     \/ (IsSome(rule) /\ Val(rule) = ""))
      => LET r == routineAdd(DB, [name |-> name, rule |-> rule, ts |-> ts, tz |-> tz])
         IN  r.out.code # "OK" /\ r.db = DB

\* C20: add performs no uniqueness check: adding a routine whose name is
\* already used succeeds and creates a second routine with a fresh
\* identifier, and a later lookup of that name fails with AmbiguousRoutine.
C20_AddAllowsDuplicateName ==
  \A n \in DirNames, tz \in DirTzArgs :
    Named(DB, n) # {} =>
      LET r == routineAdd(DB, [name |-> Some(n), rule |-> Some("daily>=30m"),
                               ts |-> Some([wall |-> 0, frac |-> "", zone |-> "Z"]), tz |-> tz])
      IN  /\ r.out.code = "OK"
          /\ Len(r.db.routines) = Len(routines) + 1
          /\ SubSeq(r.db.routines, 1, Len(routines)) = routines
          /\ r.db.routines[Len(routines) + 1].name = n
          /\ findRoutine(r.db, ByName(n)).code = "ERR_AMBIGUOUS_ROUTINE"
          /\ Len(routines) + 1 \in {c.id : c \in findRoutine(r.db, ByName(n)).candidates}

\* an add has just stored a second routine under a name already in use, and
\* the start that followed it found the name ambiguous
C20_Witness ==
  /\ result.cmd = "start"
  /\ result.code = "ERR_AMBIGUOUS_ROUTINE"
  /\ sessions # <<>>
  /\ \E n \in DirNames : Cardinality(Named(DB, n)) = 3

\* ------------------------------------------- claims on sessions side by side
\* C12: start on a resolvable routine succeeds however many open sessions
\* that routine or any other already has: it creates a new session in status
\* running whose identifier differs from every existing session's, and
\* leaves the existing sessions as they were, the open ones open.
C12_StartAlwaysOpensNew ==
  \A routine \in MultiRoutineArgs, ts \in MultiTsSet, x \in StartExtras :
    (~NoRoutine(routine) /\ findRoutine(DB, Val(routine)).code = "OK") =>
      LET r == sessionStart(DB, [routine |-> routine, ts |-> Some(ts), note |-> x.note, tag |-> x.tag])
          new == r.out.sessions[1].id
      IN  /\ r.out.code = "OK"
          /\ Len(r.db.sessions) = Len(sessions) + 1
          /\ new \in 1..Len(r.db.sessions) /\ new \notin SessionRows
          /\ r.out.sessions[1].status = "running"
          /\ r.db.sessions[new].routine_id = findRoutine(DB, Val(routine)).id
          /\ ~IsSome(r.db.sessions[new].end_ts)
          /\ \A sid \in SessionRows :
               /\ r.db.sessions[sid] = sessions[sid]
               /\ StatusOf(r.db, sid) = StatusOf(DB, sid)
          /\ r.db.session_events = session_events

\* a second session of a routine was started while its first is open and
\* paused
C12_Witness ==
  /\ result.cmd = "start"
  /\ result.code = "OK"
  /\ result.session = Some(2)
  /\ Len(sessions) = 2
  /\ sessions[1].routine_id = sessions[2].routine_id
  /\ IsOpen(1) /\ IsOpen(2)
  /\ StatusOf(DB, 1) = "paused"

\* session sid is in db2 what it is in the store: row, events, tags and view
Untouched(db2, sid) ==
  /\ db2.sessions[sid] = sessions[sid]
  /\ EventsOf(db2, sid) = EventsOf(DB, sid)
  /\ TagsOf(db2, sid) = TagsOf(DB, sid)
  /\ \A asOf \in TsSet : buildSession(db2, sid, asOf) = buildSession(DB, sid, asOf)

\* C13: pause, resume or stop applied to one session leaves every other
\* session's start, end, events, tags, status and computed durations (at any
\* fixed asOf) unchanged, including other open sessions of the same routine.
C13_OtherSessionsUntouched ==
  LET Others(r, session) ==
        r.db # DB => \A sid \in SessionRows : Some(sid) # session => Untouched(r.db, sid)
  IN  \A session \in MultiSessionArgs, ts \in MultiTsArgs :
        /\ Others(sessionPause(DB, [session |-> session, ts |-> ts]), session)
        /\ Others(sessionResume(DB, [session |-> session, ts |-> ts]), session)
        /\ \A x \in StopExtras :
             Others(sessionStop(DB, [session |-> session, ts |-> ts, note |-> x.note, tag |-> x.tag]),
                    session)

\* a session was stopped, with a note and a tag, while another session of
\* the same routine is open and paused
C13_Witness ==
  /\ result.cmd = "stop"
  /\ result.code = "OK"
  /\ \E s \in SessionRows, sid \in SessionRows :
       /\ result.session = Some(s)
       /\ sid # s
       /\ sessions[sid].routine_id = sessions[s].routine_id
       /\ IsSome(sessions[s].note) /\ TagsOf(DB, s) # {}
       /\ IsOpen(sid) /\ StatusOf(DB, sid) = "paused"

TornBy(p) ==
  LET w == Writes(procs[p].pre, procs[p].c)
  IN  /\ procs[p].pc = "run"
      /\ procs[p].c.command \in {"pause", "resume", "stop"}
      /\ procs[p].idx >= 1
      /\ DB = w[procs[p].idx]
      /\ DB # procs[p].pre
      /\ DB # w[Len(w)]

\* Two processes that are running at the same time both succeed with a
\* pause of the same session.
BothPausesSucceed(p, q) ==
  /\ procs[p].pc = "run" /\ procs[q].pc = "run"
  /\ procs[p].c.command = "pause" /\ procs[q].c.command = "pause"
  /\ procs[p].c.args.session = procs[q].c.args.session
  /\ procs[p].out.code = "OK" /\ procs[q].out.code = "OK"

\* C14: when two invocations race on the same session, each pause, resume
\* and stop is one atomic read-check-write: an invocation that starts (and
\* reads the file) never finds an intermediate state of another one, such as
\* the closing resume of a stop stored while the end instant is absent, and
\* two racing pauses never both succeed.
C14_AtomicTransitions ==
  /\ \A p \in Procs, q \in Procs : (p # q /\ procs[q].pc = "idle") => ~TornBy(p)
  /\ \A p \in Procs, q \in Procs : p # q => ~BothPausesSucceed(p, q)

\* ------------------------------------------- claims settled on later readings
\* C21: in every reachable state, no two non-archived routines share a name.
C21_NoSharedNames ==
  \A n \in DirNames : Cardinality(Named(DB, n)) <= 1

\* ---------------------------------------------------- claims on stopped views
\* C27: in every reachable state the view of a stopped session contains no
\* open pause interval: every pause interval of it has an end, whatever
\* instants were given to pause, resume and stop.
C27_StoppedViewHasNoOpenPause ==
  \A sid \in SessionRows :
    IsSome(sessions[sid].end_ts) =>
      LET v == buildSession(DB, sid, Val(sessions[sid].end_ts))
      IN  \A k \in 1..Len(v.pauses) : IsSome(v.pauses[k].end)

\* the end of a pause interval of a view taken with this effective end
PauseEndOf(p, effectiveEnd) == IF IsSome(p.end) THEN Val(p.end) ELSE effectiveEnd

\* the pause interval p lies wholly before start_ts or wholly after
\* effectiveEnd
WhollyOutside(p, start_ts, effectiveEnd) ==
  LET pauseEnd == PauseEndOf(p, effectiveEnd)
  IN  \/ getTime(p.start) <= getTime(start_ts) /\ getTime(pauseEnd) <= getTime(start_ts)
      \/ getTime(p.start) >= getTime(effectiveEnd) /\ getTime(pauseEnd) >= getTime(effectiveEnd)

\* C28: for every session state and every asOf, including an asOf earlier
\* than the session's start or earlier than a recorded event, the view has
\* pausedSeconds >= 0 and activeSeconds >= 0, and a pause interval lying
\* wholly outside [start, effectiveEnd] contributes zero: pausedSeconds is
\* what the other intervals alone give.
C28_ClippedAccounting ==
  \A sid \in SessionRows, asOf \in TsSet :
    LET v == buildSession(DB, sid, asOf)
        effectiveEnd == IF IsSome(v.end) THEN Val(v.end) ELSE asOf
        Inside(p) == ~WhollyOutside(p, v.start, effectiveEnd)
    IN  /\ v.pausedSeconds >= 0
        /\ v.activeSeconds >= 0
        /\ \A k \in 1..Len(v.pauses) :
             WhollyOutside(v.pauses[k], v.start, effectiveEnd)
               => PausedSeconds(<<v.pauses[k]>>, v.start, effectiveEnd) = 0
        /\ v.pausedSeconds = PausedSeconds(SelectSeq(v.pauses, Inside), v.start, effectiveEnd)

\* an open session has a closed pause interval of positive length, and an
\* asOf earlier than its start leaves that interval wholly outside
C28_Witness ==
  \E sid \in SessionRows, asOf \in TsSet :
    /\ IsOpen(sid)
    /\ getTime(asOf) < getTime(sessions[sid].start_ts)
    /\ LET v == buildSession(DB, sid, asOf)
       IN  \E k \in 1..Len(v.pauses) :
             /\ IsSome(v.pauses[k].end)
             /\ getTime(Val(v.pauses[k].end)) > getTime(v.pauses[k].start)
             /\ WhollyOutside(v.pauses[k], v.start, asOf)

\* the pause and resume instants of a stopped session, in the order they
\* were recorded, never decrease and lie between its start and its end
InOrderWithin(db, sid) ==
  LET ev == EventsOf(db, sid)
      row == db.sessions[sid]
  IN  /\ \A k \in 1..Len(ev) :
           /\ getTime(row.start_ts) <= getTime(ev[k].ts)
           /\ getTime(ev[k].ts) <= getTime(Val(row.end_ts))
      /\ \A k \in 1..(Len(ev) - 1) : getTime(ev[k].ts) <= getTime(ev[k + 1].ts)

\* the sum of (resume - pause) over the pause intervals of events taken in
\* the order given; open is the instant of the pause not yet resumed, and a
\* pause still open at the end is closed by end_ts
RECURSIVE SumOfPauses(_, _, _)
SumOfPauses(events, open, end_ts) ==
  IF events = <<>>
  THEN IF IsSome(open) THEN secondsBetween(Val(open), end_ts) ELSE 0
  ELSE LET evt == Head(events)
       IN  IF evt.type = "pause" /\ ~IsSome(open)
           THEN SumOfPauses(Tail(events), Some(evt.ts), end_ts)
           ELSE IF evt.type = "resume" /\ IsSome(open)
           THEN secondsBetween(Val(open), evt.ts) + SumOfPauses(Tail(events), None, end_ts)
           ELSE SumOfPauses(Tail(events), open, end_ts)

\* C23: for a session whose pause and resume instants are non-decreasing and
\* lie between its start and end, the stopped view has durationSeconds =
\* end - start, pausedSeconds = the sum of (resume - pause) over its pause
\* intervals, and activeSeconds = durationSeconds - pausedSeconds; with no
\* pauses, pausedSeconds = 0 and activeSeconds = durationSeconds.
C23_StoppedViewArithmetic ==
  \A sid \in SessionRows, asOf \in TsSet :
    (IsSome(sessions[sid].end_ts) /\ InOrderWithin(DB, sid)) =>
      LET v == buildSession(DB, sid, asOf)
          row == sessions[sid]
      IN  /\ v.durationSeconds = (getTime(Val(row.end_ts)) - getTime(row.start_ts)) \div 1000
          /\ v.pausedSeconds = SumOfPauses(EventsOf(DB, sid), None, Val(row.end_ts))
          /\ v.activeSeconds = v.durationSeconds - v.pausedSeconds
          /\ EventsOf(DB, sid) = <<>> =>
               (v.pausedSeconds = 0 /\ v.activeSeconds = v.durationSeconds)

\* ------------------------------------------- claims on the missing --session
\* C24: pause, resume or stop invoked without a session reference fails with
\* ERR_SESSION_REQUIRED, carries the list of all currently open sessions
\* (id, routine, start) and changes no stored state; it never picks a
\* session implicitly, even when exactly one is open.
C24_NoSessionGivesSessionRequired ==
  LET open == {sid \in SessionRows : IsOpen(sid)}
      Entry(sid) == [id |-> sid,
                     routineId |-> sessions[sid].routine_id,
                     routineName |-> routines[sessions[sid].routine_id].name,
                     start |-> sessions[sid].start_ts]
      Refused(r) ==
        /\ r.out.code = "ERR_SESSION_REQUIRED"
        /\ r.db = DB
        /\ r.out.sessions = <<>>
        /\ Len(r.out.details) = Cardinality(open)
        /\ {r.out.details[k] : k \in 1..Len(r.out.details)} = {Entry(sid) : sid \in open}
  IN  \A ts \in MultiTsArgs \cup {Some(NoOffsetTs)} :
        /\ Refused(sessionPause(DB, [session |-> None, ts |-> ts]))
        /\ Refused(sessionResume(DB, [session |-> None, ts |-> ts]))
        /\ \A x \in StopExtras :
             Refused(sessionStop(DB, [session |-> None, ts |-> ts, note |-> x.note, tag |-> x.tag]))

\* a command without --session was refused while exactly one session is
\* open and another one is stopped
C24_Witness ==
  /\ result.cmd \in {"pause", "resume", "stop"}
  /\ result.code = "ERR_SESSION_REQUIRED"
  /\ Cardinality({sid \in SessionRows : IsOpen(sid)}) = 1
  /\ Cardinality({sid \in SessionRows : ~IsOpen(sid)}) = 1

\* ------------------------------------------------ claims on the step runner
\* C25: in a routine run by the step runner, if a step fails the routine
\* stops immediately: no later step is started, and the run is marked failed.
C25_StopsAtFirstFailure ==
  \A k \in 1..Len(runner.results) :
    ~runner.results[k].success =>
      /\ Len(runner.results) = k
      /\ runner.pc = "exited" => runner.history = Some("failed")

\* the file whose run has exited
RanFile == Val(runner.file)

C22_ActiveInStartOrder ==
  \A arg \in {None} \cup {Some(t) : t \in TsSet}, now \in NowSet :
    LET out == sessionActive(DB, [asOf |-> arg], now).out
        asOf == IF IsSome(arg) THEN Val(arg) ELSE now
        open == {sid \in SessionRows : IsOpen(sid)}
        n == Len(out.sessions)
        StartOf(k) == getTime(sessions[out.sessions[k].id].start_ts)
    IN  /\ out.code = "OK"
        /\ n = Cardinality(open)
        /\ {out.sessions[k].id : k \in 1..n} = open
        /\ \A k \in 1..n : out.sessions[k] = buildSession(DB, out.sessions[k].id, asOf)
        /\ \A j \in 1..n, k \in 1..n :
             j < k => \/ StartOf(j) < StartOf(k)
                      \/ StartOf(j) = StartOf(k) /\ out.sessions[j].id < out.sessions[k].id

\* --------------------------------------------- claims on sub-second instants
\* C29: accounting is monotonic in the query instant: for an open session
\* with a fixed event log and asOf1 <= asOf2, durationSeconds, pausedSeconds
\* and activeSeconds at asOf1 are each <= their values at asOf2, also when
\* instants have sub-second parts.
C29_MonotonicInAsOf ==
  \A sid \in SessionRows, asOf1 \in FracTsSet, asOf2 \in FracTsSet :
    (IsOpen(sid) /\ getTime(asOf1) <= getTime(asOf2)) =>
      LET v1 == buildSession(DB, sid, asOf1)
          v2 == buildSession(DB, sid, asOf2)
      IN  /\ v1.durationSeconds <= v2.durationSeconds
          /\ v1.pausedSeconds <= v2.pausedSeconds
          /\ v1.activeSeconds <= v2.activeSeconds

\* the quotient of n by d rounded toward zero
TruncDiv(n, d) == IF n >= 0 THEN n \div d ELSE -((-n) \div d)

\* C30: secondsBetween(a, b) is the signed difference b - a in whole
\* seconds, truncated toward zero at sub-second granularity, for positive
\* and for negative differences alike.
C30_SecondsBetweenTruncates ==
  \A a \in FracTsSet \cup {sessions[sid].start_ts : sid \in SessionRows}, b \in FracTsSet :
    secondsBetween(a, b) = TruncDiv(getTime(b) - getTime(a), 1000)

\* --------------------------------------------- claims on the order of checks
\* C31: pause, resume and stop (given a well-formed --ts) apply their checks
\* in a fixed order: a session id matching no session gives SessionNotFound;
\* otherwise a session with an end instant gives SessionNotActive; only then
\* is InvalidState (pause, resume) or EndBeforeStart (stop) considered; every
\* one of these failures leaves the store unchanged.
C31_ChecksInOrder ==
  \A i \in 1..(MaxSessions + 1), ts \in TsSet :
    LET Ordered(r, last) ==
          /\ i \notin SessionRows => r.out.code = "ERR_SESSION_NOT_FOUND"
          /\ (i \in SessionRows /\ ~IsOpen(i)) => r.out.code = "ERR_SESSION_NOT_ACTIVE"
          /\ (i \in SessionRows /\ IsOpen(i)) => r.out.code \in {"OK", last}
          /\ r.out.code # "OK" => r.db = DB
    IN  /\ Ordered(sessionPause(DB, [session |-> Some(i), ts |-> Some(ts)]), "ERR_INVALID_STATE")
        /\ Ordered(sessionResume(DB, [session |-> Some(i), ts |-> Some(ts)]), "ERR_INVALID_STATE")
        /\ \A x \in StopExtras :
             Ordered(sessionStop(DB, [session |-> Some(i), ts |-> Some(ts),
                                      note |-> x.note, tag |-> x.tag]), "ERR_END_BEFORE_START")

\* a pause was refused with SessionNotActive on a stopped session whose
\* last event is a pause, so that the state test would have refused it too
C31_Witness ==
  /\ result.cmd = "pause"
  /\ result.code = "ERR_SESSION_NOT_ACTIVE"
  /\ IsSome(result.session)
  /\ Val(result.session) \in SessionRows
  /\ ~IsOpen(Val(result.session))
  /\ LastIsPause(DB, Val(result.session))

\* ------------------------------------------ claims on prefixed identifiers
\* C32: resolving an identifier that begins with rtn_ does an exact
\* identifier lookup only: it returns the routine with that id or fails with
\* RoutineNotFound, and never falls back to a name lookup or reports
\* ambiguity, even when a routine has that string as its name.
C32_PrefixedIsIdLookupOnly ==
  \A i \in 1..(PrefixRoutines + 1) :
    LET found == findRoutine(DB, ById(i))
    IN  /\ i \in 1..Len(routines) => (found.code = "OK" /\ found.id = i)
        /\ i \notin 1..Len(routines) => found.code = "ERR_ROUTINE_NOT_FOUND"
        /\ found.candidates = {}

\* a start has just resolved rtn_2 to the second routine while no routine is
\* named Focus and two routines carry the name rtn_2
C32_Witness ==
  /\ result.cmd = "start"
  /\ result.code = "OK"
  /\ sessions # <<>>
  /\ sessions[Len(sessions)].routine_id = 2
  /\ Cardinality(Named(DB, IdText(2))) >= 2
  /\ Named(DB, "Focus") = {}

\* ------------------------------------------------ claims on notes and tags
\* the values of a --tag list
TagValues(tagArgs) == {tagArgs[k] : k \in 1..Len(tagArgs)}

\* C33: a successful stop overwrites the session's note only when a note is
\* supplied (otherwise the existing note is kept), and adds the supplied
\* tags to the session's existing tag set without removing any existing tag
\* and without creating duplicates.
C33_StopMergesNoteAndTags ==
  \A sid \in SessionRows, ts \in MultiTsSet, x \in TagStopExtras :
    LET r == sessionStop(DB, [session |-> Some(sid), ts |-> Some(ts), note |-> x.note, tag |-> x.tag])
    IN  r.out.code = "OK" =>
          /\ r.db.sessions[sid].note = IF Falsy(x.note) THEN sessions[sid].note ELSE x.note
          /\ TagsOf(r.db, sid) = TagsOf(DB, sid) \cup TagValues(x.tag)
          /\ Cardinality({p \in r.db.session_tags : p[1] = sid})
               = Cardinality(TagsOf(DB, sid) \cup TagValues(x.tag))
          /\ r.out.sessions[1].tags = TagsOf(DB, sid) \cup TagValues(x.tag)

\* a stop has succeeded on a session that keeps the note given at its start
\* and has the tag of its start beside a tag given to stop
C33_Witness ==
  /\ result.cmd = "stop"
  /\ result.code = "OK"
  /\ \E sid \in SessionRows :
       /\ result.session = Some(sid)
       /\ sessions[sid].note = Some("a")
       /\ TagsOf(DB, sid) = {"t", "u"}

\* C36: every command that ends in an error leaves routines, sessions,
\* events and tags exactly as they were before it ran; in particular a start
\* that fails while inserting its tags (the same tag supplied twice) does
\* not leave a new session behind.
C36_ErrorsChangeNothing ==
  LET Clean(r) == r.out.code # "OK" => r.db = DB
  IN  /\ \A name \in NameArgs, rule \in RuleArgs, ts \in MultiTsArgs, tz \in TzArgs :
           Clean(routineAdd(DB, [name |-> name, rule |-> rule, ts |-> ts, tz |-> tz]))
      /\ \A session \in SessionArgs, ts \in MultiTsArgs :
           /\ Clean(sessionPause(DB, [session |-> session, ts |-> ts]))
           /\ Clean(sessionResume(DB, [session |-> session, ts |-> ts]))
           /\ \A x \in TagStopExtras :
                Clean(sessionStop(DB, [session |-> session, ts |-> ts, note |-> x.note, tag |-> x.tag]))
      /\ \A routine \in RoutineArgs, ts \in MultiTsArgs, x \in TagStartExtras :
           Clean(sessionStart(DB, [routine |-> routine, ts |-> ts, note |-> x.note, tag |-> x.tag]))

\* ------------------------------------------------ claims on guard and view
\* C35: the paused/running test used as the guard of pause, resume and stop
\* (the type of the event with the greatest stored timestamp) always agrees
\* with the status computed by the view (walk of the events in ascending
\* stored-timestamp order): for an open session the guard sees a pause
\* exactly when the view's status is paused, including when two events carry
\* the same timestamp or timestamps written with different UTC offsets.
C35_GuardAgreesWithView ==
  \A sid \in SessionRows :
    IsOpen(sid) => (LastIsPause(DB, sid) <=> StatusOf(DB, sid) = "paused")

\* an open session is paused, two of its events carry the same timestamp
\* and two carry different offsets
C35_Witness ==
  \E sid \in SessionRows :
    /\ IsOpen(sid)
    /\ StatusOf(DB, sid) = "paused"
    /\ \E i \in EventRows(DB, sid), j \in EventRows(DB, sid) :
         i # j /\ session_events[i].ts = session_events[j].ts
    /\ \E i \in EventRows(DB, sid), j \in EventRows(DB, sid) :
         session_events[i].ts.zone # session_events[j].ts.zone

\* ------------------------------------------------ claims on event instants
\* C37: in every reachable state, every event of a session has an instant
\* not earlier than the session's start and not earlier than the instants
\* of the events appended before it, and once the session is stopped no
\* event has an instant later than its end.
C37_EventInstantsInRange ==
  \A sid \in SessionRows :
    LET ev == EventsOf(DB, sid)
    IN  /\ \A k \in 1..Len(ev) : getTime(ev[k].ts) >= getTime(sessions[sid].start_ts)
        /\ \A j \in 1..Len(ev), k \in 1..Len(ev) :
             j < k => getTime(ev[j].ts) <= getTime(ev[k].ts)
        /\ IsSome(sessions[sid].end_ts) =>
             \A k \in 1..Len(ev) : getTime(ev[k].ts) <= getTime(Val(sessions[sid].end_ts))

\* ------------------------------------------------ claims on racing writers
\* Process p has written its last image and is about to report success.
DoneOk(p) ==
  /\ procs[p].pc = "run"
  /\ procs[p].out.code = "OK"
  /\ procs[p].idx = Len(Writes(procs[p].pre, procs[p].c))

\* The last image process p wrote
FinalOf(p) == LET w == Writes(procs[p].pre, procs[p].c) IN w[Len(w)]

\* p and q work on different sessions or routines: each of add and start
\* makes a row of its own, and two commands on sessions name different ones
DifferentTargets(p, q) ==
  \/ procs[p].c.command \in {"add", "start"}
  \/ procs[q].c.command \in {"add", "start"}
  \/ procs[p].c.args.session # procs[q].c.args.session

\* C38: when two command invocations run concurrently on different sessions
\* or routines, the final store contains the effects of both: no session,
\* event, tag or routine written by a command that reported success is lost.
C38_NoLostWrites ==
  \A p \in Procs, q \in Procs :
    (/\ p # q
     /\ DoneOk(p) /\ DoneOk(q)
     /\ procs[p].pre = procs[q].pre
     /\ DifferentTargets(p, q))
      => LET pre == procs[p].pre
             Grown(t) == Len(FinalOf(p)[t]) - Len(pre[t]) + Len(FinalOf(q)[t]) - Len(pre[t])
         IN  /\ Len(routines) = Len(pre.routines) + Grown("routines")
             /\ Len(sessions) = Len(pre.sessions) + Grown("sessions")
             /\ Len(session_events) = Len(pre.session_events) + Grown("session_events")

\* The view fields the day summary and buildSession both compute
ViewFields(v) ==
  [status |-> v.status, pauses |-> v.pauses, durationSeconds |-> v.durationSeconds,
   pausedSeconds |-> v.pausedSeconds, activeSeconds |-> v.activeSeconds]

\* C39: for every stored session and every asOf, the view that the day
\* summary computes for the row (status, pause intervals, durationSeconds,
\* pausedSeconds, activeSeconds) is the one buildSession computes.
C39_TodayViewIsBuildSession ==
  \A sid \in 1..Len(sessions) : \A asOf \in TsSet \cup NowSet :
    ViewFields(todayView(DB, sid, asOf)) = ViewFields(buildSession(DB, sid, asOf))

\* The day summary has listed a session that is paused, its pause opened
\* before its start: clipping, the open pause and the status all matter.
C39_Witness ==
  /\ result.cmd = "today" /\ result.code = "OK" /\ IsSome(result.session)
  /\ LET sid == Val(result.session)
         v == buildSession(DB, sid, [wall |-> 1, frac |-> ".000", zone |-> "Z"])
     IN  /\ v.status = "paused"
         /\ Len(v.pauses) = 1
         /\ isBefore(v.pauses[1].start, sessions[sid].start_ts)
         /\ v.pausedSeconds > 0

\* The sums of the three durations over a list of session views
SumsOver(views) ==
  LET n == Len(views)
      D[k \in 0..n] == IF k = 0 THEN 0 ELSE D[k - 1] + views[k].durationSeconds
      P[k \in 0..n] == IF k = 0 THEN 0 ELSE P[k - 1] + views[k].pausedSeconds
      A[k \in 0..n] == IF k = 0 THEN 0 ELSE A[k - 1] + views[k].activeSeconds
  IN  [durationSeconds |-> D[n], pausedSeconds |-> P[n], activeSeconds |-> A[n]]

\* C34: whatever today is given, when it succeeds its totals are the sums
\* of durationSeconds, pausedSeconds and activeSeconds over the sessions it
\* lists and sessionsCount is their number; succeeding or not, it leaves the
\* store as it was.
C34_TodayIsReadOnlyFold ==
  \A args \in TodayArgs, now \in NowSet :
    LET r == todaySummary(DB, args, now)
    IN  /\ r.db = DB
        /\ r.out.code = "OK" =>
             LET sums == SumsOver(r.out.sessions)
             IN  /\ r.out.totals.durationSeconds = sums.durationSeconds
                 /\ r.out.totals.pausedSeconds = sums.pausedSeconds
                 /\ r.out.totals.activeSeconds = sums.activeSeconds
                 /\ r.out.totals.sessionsCount = Len(r.out.sessions)

\* today has run on a store of which it lists two sessions, one still open
\* and one stopped, with paused time to add up, and leaves out none
C34_Witness ==
  /\ result.cmd = "today" /\ result.code = "OK"
  /\ \E args \in TodayArgs, now \in NowSet :
       LET out == todaySummary(DB, args, now).out
       IN  /\ out.code = "OK"
           /\ Len(out.sessions) = 2
           /\ \E k \in 1..2 : out.sessions[k].status # "stopped" /\ out.sessions[k].pausedSeconds > 0
           /\ \E k \in 1..2 : out.sessions[k].status = "stopped" /\ out.sessions[k].durationSeconds > 0
           /\ Val(result.session) = out.sessions[1].id

\* C40: an exec step yields exactly one result under every interleaving of
\* its callbacks.  Once the promise is settled no later callback changes
\* its value, and what runRoutine recorded for the step is that value; a
\* timer that fired did so before any close or error, and the value is then
\* the Timeout failure with exitCode -1; a timer cancelled by a close or an
\* error stays cancelled, and the value is not the Timeout failure.
C40_OneResultPerExecStep ==
  [][\A k \in 1..Len(runner.execs) :
       LET e == runner.execs[k]
           f == runner'.execs[k]
       IN  /\ IsSome(e.result) => f.result = e.result
           /\ f.calls > 0 => IsSome(f.result)
           /\ f.timer = "fired" => f.result = Some(TimeoutResult) /\ f.killed
           /\ e.timer = "cleared" => f.timer = "cleared"
           /\ f.timer = "cleared" => IsSome(f.result) /\ f.result # Some(TimeoutResult)
           /\ f.timer = "armed" => ~IsSome(f.result)
           /\ ~f.awaited =>
                \E n \in 1..Len(runner'.results) :
                  /\ runner'.results[n].type = "exec"
                  /\ runner'.results[n].success = Val(f.result).success
     ]_vars

\* Two exec steps have run: the timer of the first fired and its child then
\* closed and reported an error, the child of the second closed with code 0
\* before its timer, which was cancelled; both promises saw later calls.
C40_Witness ==
  /\ Len(runner.execs) = 2
  /\ LET a == runner.execs[1]
         b == runner.execs[2]
     IN  /\ a.timer = "fired" /\ a.closed /\ a.errored /\ a.calls = 3
         /\ b.timer = "cleared" /\ b.closed /\ b.errored /\ b.calls = 2
         /\ Val(b.result).success
         /\ ~a.awaited /\ ~b.awaited

====
